---------------------------- MODULE Spec2Model ----------------------------
(***************************************************************************)
(* A model of streamxml: the streaming tokenizer (stream_xml_tokenizer.go) *)
(* and the incremental tree builder (stream_xml_parser.go).                *)
(*                                                                         *)
(* A Go string is a sequence of one-character strings; offsets are the     *)
(* 0-based byte offsets of the source, so Go's s[a:b] is Slice(s, a, b).   *)
(* An *XmlNode is an index into parser.heap (0 is the nil pointer), so     *)
(* that two references to one node are one object, as in the source.       *)
(***************************************************************************)
EXTENDS Integers, Sequences, FiniteSets, TLC

VARIABLES
  tokenizer,   \* the StreamXmlTokenizer's fields
  parser,      \* the StreamXmlParser's fields, and the XmlNodes it allocated
  err,         \* what the last Append returned
  chunk,       \* the argument of the last Append
  calllog,     \* the tags the last Append completed, in order
  tokenlog,    \* the tokens NextToken returned during the last Append, in order
  everFailed,  \* whether some Append has returned an error
  empties,     \* how many Appends carried the empty chunk
  openedAt,    \* the offset just past the opening tag of the last top-level element
  input,       \* the document a scripted run feeds, and what is left of it
  mu,          \* the parser's sync.RWMutex: the writer and the readers holding it
  pc,          \* where each calling thread is
  local        \* each calling thread's arguments, locals and results

vars == <<tokenizer, parser, err, chunk, calllog, tokenlog, everFailed, empties,
         openedAt, input, mu, pc, local>>

(***************************************************************************)
(* Bounds of the model.                                                    *)
(***************************************************************************)
\* the longest buffer the free-running specification builds
MaxLen == 5
\* the longest chunk one Append carries
MaxChunk == 2
\* the number of Appends of the empty chunk in one run
MaxEmpty == 1
\* the number of places a scripted document with a nested tag is cut at
MaxCuts == 2

\* the characters the free-running specification draws chunks from
Alphabet == {"<", ">", "/", "a"}

(***************************************************************************)
(* Go strings.                                                             *)
(***************************************************************************)
Slice(s, a, b) == SubSeq(s, a + 1, b)

IsSpace(c) == c \in {" ", "\t", "\n", "\r"}

TrimSpace(s) ==
  LET keep == {i \in 1..Len(s) : ~IsSpace(s[i])}
  IN IF keep = {} THEN <<>>
     ELSE SubSeq(s, CHOOSE i \in keep : \A j \in keep : i <= j,
                    CHOOSE i \in keep : \A j \in keep : j <= i)

\* strings.Index: the 0-based offset of the first occurrence, or -1
Index(s, sub) ==
  LET hits == {i \in 0..(Len(s) - Len(sub)) : Slice(s, i, i + Len(sub)) = sub}
  IN IF hits = {} THEN -1 ELSE CHOOSE i \in hits : \A j \in hits : i <= j

HasSuffix(s, suf) ==
  Len(s) >= Len(suf) /\ Slice(s, Len(s) - Len(suf), Len(s)) = suf

\* the 0-based offset of the first position >= from holding a character of
\* `stops`, or Len(s) when there is none
ScanTo(s, from, stops) ==
  LET hits == {i \in from..(Len(s) - 1) : s[i + 1] \in stops}
  IN IF hits = {} THEN Len(s) ELSE CHOOSE i \in hits : \A j \in hits : i <= j

\* the 0-based offset of the first position >= from holding no white space
SkipSpace(s, from) ==
  LET hits == {i \in from..(Len(s) - 1) : ~IsSpace(s[i + 1])}
  IN IF hits = {} THEN Len(s) ELSE CHOOSE i \in hits : \A j \in hits : i <= j

\* the 0-based offset of the first white space at or after from, or Len(s)
ScanToSpace(s, from) ==
  LET hits == {i \in from..(Len(s) - 1) : IsSpace(s[i + 1])}
  IN IF hits = {} THEN Len(s) ELSE CHOOSE i \in hits : \A j \in hits : i <= j

(***************************************************************************)
(* Tokens.                                                                 *)
(***************************************************************************)
Token(type, start, end, complete) ==
  [Type |-> type, Start |-> start, End |-> end, Complete |-> complete]

\* the nil *Token
NoToken == [Type |-> "nil", Start |-> 0, End |-> 0, Complete |-> FALSE]

(***************************************************************************)
(* The tokenizer.                                                          *)
(***************************************************************************)
\* allowedElements: [isNil |-> TRUE] is the nil map (every element allowed)
NilElements == [isNil |-> TRUE, names |-> {}]

NewStreamXmlTokenizer ==
  [buffer |-> <<>>, position |-> 0, allowedElements |-> NilElements,
   consumed |-> 0, inTag |-> FALSE, tagStartPos |-> 0, tagBuffer |-> <<>>,
   textBuffer |-> <<>>, textStartPos |-> 0, pendingTokens |-> <<>>,
   pendingIndex |-> 0, incompleteReturned |-> FALSE]

\* elements: [isNil |-> TRUE, ...] for a nil slice, else the slice's names
SetAllowedElements(t, elements) ==
  IF elements.isNil THEN [t EXCEPT !.allowedElements = NilElements]
  ELSE [t EXCEPT !.allowedElements = [isNil |-> FALSE, names |-> elements.names]]

\* Append that leaves incompleteReturned as it was
TokenizerAppend_KeepFlag(t, data) == [t EXCEPT !.buffer = t.buffer \o data]

TokenizerAppend(t, data) ==
  [t EXCEPT !.buffer = t.buffer \o data, !.incompleteReturned = FALSE]

\* the allow-list never consulted
Allowed_Always(t, elementName) == TRUE

Allowed(t, elementName) ==
  t.allowedElements.isNil \/ elementName \in t.allowedElements.names

RECURSIVE parseAndEmitAttributes(_, _, _, _)

\* an unquoted value runs to the next white space
parseUnquotedValue(attrStr, i4, pos4, i5, out) ==
  parseAndEmitAttributes(attrStr, i5, pos4 + (i5 - i4),
                         Append(out, Token("AttributeValue", pos4,
                                           pos4 + (i5 - i4), TRUE)))

\* a quoted value runs to the closing quote at i5, or to the end
parseQuotedValue(attrStr, valueStart, pos4, i5, out) ==
  IF i5 < Len(attrStr)
  THEN parseAndEmitAttributes(attrStr, i5 + 1, pos4 + 1 + (i5 - valueStart) + 1,
                              Append(out, Token("AttributeValue", pos4 + 1,
                                                pos4 + 1 + (i5 - valueStart), TRUE)))
  ELSE parseAndEmitAttributes(attrStr, i5, pos4 + 1 + (i5 - valueStart),
                              Append(out, Token("AttributeValue", pos4 + 1,
                                                pos4 + 1 + (i5 - valueStart), TRUE)))

\* the value, from the offset i4 that follows '=' and white space
parseAttributeValue(attrStr, i4, pos4, out) ==
  IF i4 >= Len(attrStr) THEN out
  ELSE IF attrStr[i4 + 1] \in {"\"", "'"}
  THEN parseQuotedValue(attrStr, i4 + 1, pos4,
                        ScanTo(attrStr, i4 + 1, {attrStr[i4 + 1]}), out)
  ELSE parseUnquotedValue(attrStr, i4, pos4, ScanToSpace(attrStr, i4), out)

\* a name without '=' passed over, the scan going on with what follows it
parseAttributeEquals_KeepScanning(attrStr, i3, pos3, out) ==
  IF i3 >= Len(attrStr) THEN out
  ELSE IF attrStr[i3 + 1] # "=" THEN parseAndEmitAttributes(attrStr, i3, pos3, out)
  ELSE parseAttributeValue(attrStr, SkipSpace(attrStr, i3 + 1),
                           pos3 + 1 + (SkipSpace(attrStr, i3 + 1) - (i3 + 1)),
                           Append(out, Token("Equals", pos3, pos3 + 1, TRUE)))

\* the '=' expected at i3, after the name and white space
parseAttributeEquals(attrStr, i3, pos3, out) ==
  IF i3 >= Len(attrStr) \/ attrStr[i3 + 1] # "=" THEN out
  ELSE parseAttributeValue(attrStr, SkipSpace(attrStr, i3 + 1),
                           pos3 + 1 + (SkipSpace(attrStr, i3 + 1) - (i3 + 1)),
                           Append(out, Token("Equals", pos3, pos3 + 1, TRUE)))

\* the name, from i1 to i2
parseAttributeName(attrStr, i1, pos1, i2, out) ==
  IF i2 >= Len(attrStr) THEN out
  ELSE parseAttributeEquals(attrStr, SkipSpace(attrStr, i2),
                            pos1 + (i2 - i1) + (SkipSpace(attrStr, i2) - i2),
                            Append(out, Token("AttributeName", pos1,
                                              pos1 + (i2 - i1), TRUE)))

\* one round of the loop, from the offset i1 that follows white space
parseAttribute(attrStr, i1, pos1, out) ==
  IF i1 >= Len(attrStr) THEN out
  ELSE parseAttributeName(attrStr, i1, pos1,
                          ScanTo(attrStr, i1, {"=", " ", "\t", "\n", "\r"}), out)

\* the loop of parseAndEmitAttributes: i0 is the offset in attrStr, currentPos0
\* the buffer offset; the result is the tokens appended to `out`
parseAndEmitAttributes(attrStr, i0, currentPos0, out) ==
  IF i0 >= Len(attrStr) THEN out
  ELSE parseAttribute(attrStr, SkipSpace(attrStr, i0),
                      currentPos0 + (SkipSpace(attrStr, i0) - i0), out)

\* the tag between '<' and '>' without the '/' of a closing tag
StripClosing(inner) ==
  IF Len(inner) > 0 /\ inner[1] = "/" THEN Slice(inner, 1, Len(inner)) ELSE inner

\* ... and without the '/' of a self-closing tag
StripSelfClosing(inner) ==
  IF Len(inner) > 0 /\ inner[Len(inner)] = "/"
  THEN Slice(inner, 0, Len(inner) - 1)
  ELSE inner

\* the element name: up to the first white space
ElementNameOf(inner) == Slice(inner, 0, ScanToSpace(inner, 0))

\* what follows the element name
RestOfTag(inner) ==
  IF ScanToSpace(inner, 0) < Len(inner)
  THEN TrimSpace(Slice(inner, ScanToSpace(inner, 0) + 1, Len(inner)))
  ELSE <<>>

\* the tokens of an allowed tag with '>' placed one past the tag's last byte
emitTagTokens_CloseAtEnd(t, tagContent, isClosing, isSelfClosing, elementName, restOfTag, at) ==
  LET tagContentStart == IF isClosing THEN t.tagStartPos + 2 ELSE t.tagStartPos + 1
      head == <<Token("OpenBracket", t.tagStartPos, t.tagStartPos + 1, TRUE)>>
                \o (IF isClosing
                    THEN <<Token("Slash", t.tagStartPos + 1, t.tagStartPos + 2, TRUE)>>
                    ELSE <<>>)
                \o <<Token("ElementName", tagContentStart,
                           tagContentStart + Len(elementName), TRUE)>>
      slashPos == t.tagStartPos + Len(tagContent) - 2
      closeBracketPos == t.tagStartPos + Len(tagContent)
  IN (IF restOfTag # <<>> /\ at >= 0
      THEN parseAndEmitAttributes(restOfTag, 0, tagContentStart + at, head)
      ELSE head)
       \o (IF isSelfClosing THEN <<Token("Slash", slashPos, slashPos + 1, TRUE)>>
           ELSE <<>>)
       \o <<Token("CloseBracket", closeBracketPos, closeBracketPos + 1, TRUE)>>

\* the tokens of an allowed tag; `at` is attrStartInTag
emitTagTokens(t, tagContent, isClosing, isSelfClosing, elementName, restOfTag, at) ==
  LET tagContentStart == IF isClosing THEN t.tagStartPos + 2 ELSE t.tagStartPos + 1
      head == <<Token("OpenBracket", t.tagStartPos, t.tagStartPos + 1, TRUE)>>
                \o (IF isClosing
                    THEN <<Token("Slash", t.tagStartPos + 1, t.tagStartPos + 2, TRUE)>>
                    ELSE <<>>)
                \o <<Token("ElementName", tagContentStart,
                           tagContentStart + Len(elementName), TRUE)>>
      slashPos == t.tagStartPos + Len(tagContent) - 2
      closeBracketPos == t.tagStartPos + Len(tagContent) - 1
  IN (IF restOfTag # <<>> /\ at >= 0
      THEN parseAndEmitAttributes(restOfTag, 0, tagContentStart + at, head)
      ELSE head)
       \o (IF isSelfClosing THEN <<Token("Slash", slashPos, slashPos + 1, TRUE)>>
           ELSE <<>>)
       \o <<Token("CloseBracket", closeBracketPos, closeBracketPos + 1, TRUE)>>

\* the tag once its name is known: text when the element is not allowed
emitTag(t, tagContent, isClosing, isSelfClosing, elementName, restOfTag) ==
  IF ~Allowed(t, elementName)
  THEN <<Token("Text", t.tagStartPos, t.tagStartPos + Len(tagContent), TRUE)>>
  ELSE emitTagTokens(t, tagContent, isClosing, isSelfClosing, elementName, restOfTag,
                     Index(Slice(tagContent, IF isClosing THEN 2 ELSE 1,
                                 Len(tagContent)), restOfTag))

\* the tag once split into its marks and what is between them
parseTagInner(t, tagContent, isClosing, isSelfClosing, inner) ==
  emitTag(t, tagContent, isClosing, isSelfClosing, ElementNameOf(inner),
          RestOfTag(inner))

\* the tokens parseAndEmitTag appends to pendingTokens for tagContent
parseAndEmitTag(t, tagContent) ==
  IF Len(tagContent) < 2
  THEN <<Token("Text", t.tagStartPos, t.tagStartPos + Len(tagContent), TRUE)>>
  ELSE LET inner0 == Slice(tagContent, 1, Len(tagContent) - 1)
           inner1 == StripClosing(inner0)
       IN parseTagInner(t, tagContent,
                        Len(inner0) > 0 /\ inner0[1] = "/",
                        Len(inner1) > 0 /\ inner1[Len(inner1)] = "/",
                        TrimSpace(StripSelfClosing(inner1)))

\* tryCompleteTag: [ok, t]
\* tryCompleteTag that starts tagBuffer anew on every call
tryCompleteTag_Restart(t) ==
  LET n == Len(t.buffer)
      gt == ScanTo(t.buffer, t.position, {">"})
  IN IF gt < n
     THEN LET tagContent == Slice(t.buffer, t.position, gt + 1)
          IN [ok |-> TRUE,
              t |-> [t EXCEPT !.pendingTokens = t.pendingTokens
                                                  \o parseAndEmitTag(t, tagContent),
                              !.position = gt + 1,
                              !.inTag = FALSE,
                              !.tagBuffer = <<>>,
                              !.consumed = gt + 1]]
     ELSE [ok |-> FALSE,
           t |-> [t EXCEPT !.tagBuffer = Slice(t.buffer, t.position, n),
                           !.position = n]]

tryCompleteTag(t) ==
  LET n == Len(t.buffer)
      gt == ScanTo(t.buffer, t.position, {">"})
  IN IF gt < n
     THEN LET tagContent == t.tagBuffer \o Slice(t.buffer, t.position, gt + 1)
          IN [ok |-> TRUE,
              t |-> [t EXCEPT !.pendingTokens = t.pendingTokens
                                                  \o parseAndEmitTag(t, tagContent),
                              !.position = gt + 1,
                              !.inTag = FALSE,
                              !.tagBuffer = <<>>,
                              !.consumed = gt + 1]]
     ELSE [ok |-> FALSE,
           t |-> [t EXCEPT !.tagBuffer = t.tagBuffer \o Slice(t.buffer, t.position, n),
                           !.position = n]]

\* processText with the start of a text run never recorded
processText_StaleStart(t) ==
  LET n == Len(t.buffer)
      lt == ScanTo(t.buffer, t.position, {"<"})
      text == t.textBuffer \o Slice(t.buffer, t.position, lt)
      start == t.textStartPos
  IN IF lt < n
     THEN [tok |-> IF Len(text) > 0 THEN Token("Text", start, lt, TRUE) ELSE NoToken,
           t |-> [t EXCEPT !.textBuffer = <<>>,
                           !.position = lt,
                           !.inTag = TRUE,
                           !.tagStartPos = lt,
                           !.tagBuffer = <<>>]]
     ELSE [tok |-> NoToken,
           t |-> [t EXCEPT !.textBuffer = text,
                           !.position = n]]

\* processText: [tok, t]
processText(t) ==
  LET n == Len(t.buffer)
      lt == ScanTo(t.buffer, t.position, {"<"})
      text == t.textBuffer \o Slice(t.buffer, t.position, lt)
      start == IF Len(t.textBuffer) = 0 /\ lt > t.position THEN t.position
               ELSE t.textStartPos
  IN IF lt < n
     THEN [tok |-> IF Len(text) > 0 THEN Token("Text", start, lt, TRUE) ELSE NoToken,
           t |-> [t EXCEPT !.textBuffer = <<>>,
                           !.textStartPos = start,
                           !.position = lt,
                           !.inTag = TRUE,
                           !.tagStartPos = lt,
                           !.tagBuffer = <<>>]]
     ELSE [tok |-> NoToken,
           t |-> [t EXCEPT !.textBuffer = text,
                           !.textStartPos = start,
                           !.position = n]]

\* the pop of the pending queue at the head of NextToken and after a completed tag
PopPending(t) ==
  LET token == t.pendingTokens[t.pendingIndex + 1]
      idx == t.pendingIndex + 1
  IN [tok |-> token,
      t |-> IF idx >= Len(t.pendingTokens)
            THEN [t EXCEPT !.pendingTokens = <<>>, !.pendingIndex = 0]
            ELSE [t EXCEPT !.pendingIndex = idx]]

\* the end of NextToken with the text at the end of the buffer marked incomplete
NextTokenTail_TextIncomplete(t) ==
  IF Len(t.textBuffer) > 0 /\ ~t.inTag
  THEN [tok |-> Token("Text", t.textStartPos, t.position, FALSE),
        t |-> [t EXCEPT !.textBuffer = <<>>]]
  ELSE IF t.inTag /\ Len(t.tagBuffer) > 0 /\ ~t.incompleteReturned
  THEN [tok |-> Token("Incomplete", t.tagStartPos, t.position, FALSE),
        t |-> [t EXCEPT !.incompleteReturned = TRUE]]
  ELSE [tok |-> NoToken, t |-> t]

\* the end of NextToken with the text buffer left as it is
NextTokenTail_KeepText(t) ==
  IF Len(t.textBuffer) > 0 /\ ~t.inTag
  THEN [tok |-> Token("Text", t.textStartPos, t.position, TRUE), t |-> t]
  ELSE IF t.inTag /\ Len(t.tagBuffer) > 0 /\ ~t.incompleteReturned
  THEN [tok |-> Token("Incomplete", t.tagStartPos, t.position, FALSE),
        t |-> [t EXCEPT !.incompleteReturned = TRUE]]
  ELSE [tok |-> NoToken, t |-> t]

\* the end of NextToken, after its scan loop
NextTokenTail(t) ==
  IF Len(t.textBuffer) > 0 /\ ~t.inTag
  THEN [tok |-> Token("Text", t.textStartPos, t.position, TRUE),
        t |-> [t EXCEPT !.textBuffer = <<>>]]
  ELSE IF t.inTag /\ Len(t.tagBuffer) > 0 /\ ~t.incompleteReturned
  THEN [tok |-> Token("Incomplete", t.tagStartPos, t.position, FALSE),
        t |-> [t EXCEPT !.incompleteReturned = TRUE]]
  ELSE [tok |-> NoToken, t |-> t]

RECURSIVE NextTokenScan(_)

\* the scan loop after tryCompleteTag returned r
NextTokenAfterTag(r) ==
  IF r.ok
  THEN IF r.t.pendingIndex < Len(r.t.pendingTokens)
       THEN PopPending(r.t)
       ELSE NextTokenScan(r.t)
  ELSE NextTokenTail(r.t)

\* the scan loop after processText returned r
NextTokenAfterText(r) ==
  IF r.tok # NoToken THEN r ELSE NextTokenScan(r.t)

\* the scan loop of NextToken
NextTokenScan(t) ==
  IF t.position < Len(t.buffer)
  THEN IF t.inTag
       THEN NextTokenAfterTag(tryCompleteTag(t))
       ELSE NextTokenAfterText(processText(t))
  ELSE NextTokenTail(t)

\* NextToken: [tok, t], tok = NoToken for nil
NextToken(t) ==
  IF t.pendingIndex < Len(t.pendingTokens) THEN PopPending(t)
  ELSE NextTokenScan(t)

(***************************************************************************)
(* Configuration.                                                          *)
(***************************************************************************)
DefaultMaxDepth == 100
DefaultMaxBufferSize == 10485760
DefaultBufferCleanupThreshold == 1024
MinBufferSize == 1024

DefaultConfig ==
  [MaxDepth |-> DefaultMaxDepth, MaxBufferSize |-> DefaultMaxBufferSize,
   AllowedElements |-> NilElements,
   BufferCleanupThreshold |-> DefaultBufferCleanupThreshold]

\* Validate without the check of MaxBufferSize
Validate_NoBufferCheck(c) ==
  IF c.MaxDepth < 1 THEN "ErrInvalidConfiguration"
  ELSE IF c.BufferCleanupThreshold < 0 THEN "ErrInvalidConfiguration"
  ELSE "nil"

\* Validate: "nil" or the error
Validate(c) ==
  IF c.MaxDepth < 1 THEN "ErrInvalidConfiguration"
  ELSE IF c.MaxBufferSize < MinBufferSize THEN "ErrInvalidConfiguration"
  ELSE IF c.BufferCleanupThreshold < 0 THEN "ErrInvalidConfiguration"
  ELSE "nil"

(***************************************************************************)
(* The parser (tree builder).                                              *)
(***************************************************************************)
\* the nil *XmlNode
NilNode == 0

XmlNode(name, attributes, content, partial, startPos, endPos) ==
  [Name |-> name, Attributes |-> attributes, Content |-> content,
   Partial |-> partial, StartPos |-> startPos, EndPos |-> endPos]

\* make(map[string]string)
EmptyMap == <<>>

\* m[k] = v
MapPut(m, k, v) == [x \in (DOMAIN m) \cup {k} |-> IF x = k THEN v ELSE m[x]]

TextASTNode(text, position) ==
  [Type |-> "Text", Text |-> text, XmlNode |-> NilNode, Position |-> position]

XmlASTNode(ptr, position) ==
  [Type |-> "Xml", Text |-> <<>>, XmlNode |-> ptr, Position |-> position]

NewStreamXmlParserWithConfig(config) ==
  LET cfg == IF Validate(config) # "nil" THEN DefaultConfig ELSE config
  IN [astNodes |-> <<>>, xmlStack |-> <<>>, textParts |-> <<>>,
      currentContent |-> <<>>, depth |-> 0, config |-> cfg,
      collectingTag |-> FALSE, tagTokens |-> <<>>, tagStartPos |-> 0,
      currentPartialNode |-> NilNode, partialNodeIndex |-> -1,
      heap |-> <<>>]

\* the tokenizer NewStreamXmlParserWithConfig builds and configures
NewParserTokenizer(config) ==
  LET cfg == IF Validate(config) # "nil" THEN DefaultConfig ELSE config
  IN IF ~cfg.AllowedElements.isNil
     THEN SetAllowedElements(NewStreamXmlTokenizer, cfg.AllowedElements)
     ELSE NewStreamXmlTokenizer

getValue(buffer, token) ==
  IF token.Start >= 0 /\ token.End <= Len(buffer)
  THEN Slice(buffer, token.Start, token.End)
  ELSE <<>>

\* the content accumulator never copied to the open node
SyncContent_Skip(p) == p

\* xmlStack[len(xmlStack)-1].Content = currentContent.String(), when the stack
\* is not empty
SyncContent(p) ==
  IF Len(p.xmlStack) > 0
  THEN [p EXCEPT !.heap[p.xmlStack[Len(p.xmlStack)]].Content = p.currentContent]
  ELSE p

extractPartialTagName(tagValue) ==
  IF Len(tagValue) < 2 THEN <<>>
  ELSE LET content == TrimSpace(IF tagValue[1] = "<"
                                THEN Slice(tagValue, 1, Len(tagValue))
                                ELSE tagValue)
       IN Slice(content, 0, ScanToSpace(content, 0))

isClosingTagFragment(value) ==
  Len(value) >= 2 /\ value[1] = "<" /\ value[2] = "/"

RECURSIVE reconstructTokens(_, _, _)
\* the loop of reconstructTag over tagTokens from index k (1-based)
reconstructTokens(tokens, buffer, k) ==
  IF k > Len(tokens) THEN <<>>
  ELSE LET token == tokens[k]
           value == getValue(buffer, token)
           piece == CASE token.Type = "OpenBracket" -> <<"<">>
                      [] token.Type = "CloseBracket" -> <<">">>
                      [] token.Type = "Slash" -> <<"/">>
                      [] token.Type = "ElementName" -> value
                      [] token.Type = "AttributeName" -> <<" ">> \o value
                      [] token.Type = "Equals" -> <<"=">>
                      [] token.Type = "AttributeValue" -> <<"\"">> \o value \o <<"\"">>
                      [] OTHER -> <<>>
       IN piece \o reconstructTokens(tokens, buffer, k + 1)

reconstructTag(p, buffer) == reconstructTokens(p.tagTokens, buffer, 1)

RECURSIVE parseTagAttributes(_, _, _, _)
\* the attribute loop of processCompleteTag; i is the 0-based index in tokens,
\* acc = [isSelfClosing, attributes]
parseTagAttributes(tokens, buffer, i, acc) ==
  IF i >= Len(tokens) - 1 THEN acc
  ELSE IF tokens[i + 1].Type = "Slash"
  THEN parseTagAttributes(tokens, buffer, i + 1, [acc EXCEPT !.isSelfClosing = TRUE])
  ELSE IF tokens[i + 1].Type = "AttributeName"
  THEN LET attrName == getValue(buffer, tokens[i + 1])
       IN IF i + 1 < Len(tokens) /\ tokens[i + 2].Type = "Equals"
          THEN IF i + 2 < Len(tokens) /\ tokens[i + 3].Type = "AttributeValue"
               THEN parseTagAttributes(tokens, buffer, i + 3,
                      [acc EXCEPT !.attributes =
                         MapPut(acc.attributes, attrName, getValue(buffer, tokens[i + 3]))])
               ELSE parseTagAttributes(tokens, buffer, i + 2, acc)
          ELSE parseTagAttributes(tokens, buffer, i + 1, acc)
  ELSE parseTagAttributes(tokens, buffer, i + 1, acc)

\* the head of processCompleteTag: the tag's kind, name and attributes
TagInfo(p, buffer) ==
  LET tokens == p.tagTokens
      isClosing == 1 < Len(tokens) /\ tokens[2].Type = "Slash"
      i1 == IF isClosing THEN 2 ELSE 1
      hasName == i1 < Len(tokens) /\ tokens[i1 + 1].Type = "ElementName"
      elementName == IF hasName THEN getValue(buffer, tokens[i1 + 1]) ELSE <<>>
      i2 == IF hasName THEN i1 + 1 ELSE i1
      acc == parseTagAttributes(tokens, buffer, i2,
                                [isSelfClosing |-> FALSE, attributes |-> EmptyMap])
  IN [isClosing |-> isClosing, isSelfClosing |-> acc.isSelfClosing,
      elementName |-> elementName, attributes |-> acc.attributes]

\* a new XmlNode on the heap: [p, ptr]
NewNode(p, node) ==
  [p |-> [p EXCEPT !.heap = Append(p.heap, node)], ptr |-> Len(p.heap) + 1]

\* the closing-tag branch that goes on tracking the element it has closed
processClosingTag_KeepTracking(p, buffer) ==
  LET p1 == IF p.depth > 0 THEN [p EXCEPT !.depth = p.depth - 1] ELSE p
  IN IF p1.depth = 0 /\ Len(p1.xmlStack) > 0
     THEN LET xmlNode == p1.xmlStack[Len(p1.xmlStack)]
              p2 == [p1 EXCEPT !.xmlStack = SubSeq(p1.xmlStack, 1, Len(p1.xmlStack) - 1),
                               !.heap[xmlNode].Content = p1.currentContent,
                               !.heap[xmlNode].EndPos = p1.tagStartPos,
                               !.heap[xmlNode].Partial = FALSE]
              p3 == IF p2.currentPartialNode = xmlNode /\ p2.partialNodeIndex >= 0
                    THEN p2
                    ELSE [p2 EXCEPT !.astNodes =
                            Append(p2.astNodes,
                                   XmlASTNode(xmlNode, p2.heap[xmlNode].StartPos))]
          IN [p3 EXCEPT !.currentContent = <<>>]
     ELSE IF p1.depth > 0
     THEN SyncContent([p1 EXCEPT !.currentContent =
                         p1.currentContent \o reconstructTag(p1, buffer)])
     ELSE p1

\* the closing-tag branch that closes the open element at whatever depth
processClosingTag_AnyDepth(p, buffer) ==
  LET p1 == IF p.depth > 0 THEN [p EXCEPT !.depth = p.depth - 1] ELSE p
  IN IF Len(p1.xmlStack) > 0
     THEN LET xmlNode == p1.xmlStack[Len(p1.xmlStack)]
              p2 == [p1 EXCEPT !.xmlStack = SubSeq(p1.xmlStack, 1, Len(p1.xmlStack) - 1),
                               !.heap[xmlNode].Content = p1.currentContent,
                               !.heap[xmlNode].EndPos = p1.tagStartPos,
                               !.heap[xmlNode].Partial = FALSE]
              p3 == IF p2.currentPartialNode = xmlNode /\ p2.partialNodeIndex >= 0
                    THEN [p2 EXCEPT !.currentPartialNode = NilNode,
                                    !.partialNodeIndex = -1]
                    ELSE [p2 EXCEPT !.astNodes =
                            Append(p2.astNodes,
                                   XmlASTNode(xmlNode, p2.heap[xmlNode].StartPos))]
          IN [p3 EXCEPT !.currentContent = <<>>]
     ELSE IF p1.depth > 0
     THEN SyncContent([p1 EXCEPT !.currentContent =
                         p1.currentContent \o reconstructTag(p1, buffer)])
     ELSE p1

\* the closing-tag branch of processCompleteTag
processClosingTag(p, buffer) ==
  LET p1 == IF p.depth > 0 THEN [p EXCEPT !.depth = p.depth - 1] ELSE p
  IN IF p1.depth = 0 /\ Len(p1.xmlStack) > 0
     THEN LET xmlNode == p1.xmlStack[Len(p1.xmlStack)]
              p2 == [p1 EXCEPT !.xmlStack = SubSeq(p1.xmlStack, 1, Len(p1.xmlStack) - 1),
                               !.heap[xmlNode].Content = p1.currentContent,
                               !.heap[xmlNode].EndPos = p1.tagStartPos,
                               !.heap[xmlNode].Partial = FALSE]
              p3 == IF p2.currentPartialNode = xmlNode /\ p2.partialNodeIndex >= 0
                    THEN [p2 EXCEPT !.currentPartialNode = NilNode,
                                    !.partialNodeIndex = -1]
                    ELSE [p2 EXCEPT !.astNodes =
                            Append(p2.astNodes,
                                   XmlASTNode(xmlNode, p2.heap[xmlNode].StartPos))]
          IN [p3 EXCEPT !.currentContent = <<>>]
     ELSE IF p1.depth > 0
     THEN SyncContent([p1 EXCEPT !.currentContent =
                         p1.currentContent \o reconstructTag(p1, buffer)])
     ELSE p1

\* the self-closing branch that always makes a node of its own
processSelfClosingTag_AlwaysNew(p, buffer, elementName, attributes) ==
  IF p.depth = 0
  THEN LET r == NewNode(p, XmlNode(elementName, attributes, <<>>, FALSE,
                                   p.tagStartPos, p.tagStartPos))
       IN [r.p EXCEPT !.astNodes =
             Append(r.p.astNodes, XmlASTNode(r.ptr, p.tagStartPos)),
                      !.currentPartialNode = NilNode,
                      !.partialNodeIndex = -1]
  ELSE SyncContent([p EXCEPT !.currentContent =
                      p.currentContent \o reconstructTag(p, buffer)])

\* the self-closing branch of processCompleteTag
processSelfClosingTag(p, buffer, elementName, attributes) ==
  IF p.depth = 0
  THEN IF p.currentPartialNode # NilNode /\ p.partialNodeIndex >= 0
       THEN [p EXCEPT !.heap[p.currentPartialNode].Name = elementName,
                      !.heap[p.currentPartialNode].Attributes = attributes,
                      !.heap[p.currentPartialNode].Partial = FALSE,
                      !.heap[p.currentPartialNode].EndPos = p.tagStartPos,
                      !.currentPartialNode = NilNode,
                      !.partialNodeIndex = -1]
       ELSE LET r == NewNode(p, XmlNode(elementName, attributes, <<>>, FALSE,
                                        p.tagStartPos, p.tagStartPos))
            IN [r.p EXCEPT !.astNodes =
                  Append(r.p.astNodes, XmlASTNode(r.ptr, p.tagStartPos))]
  ELSE SyncContent([p EXCEPT !.currentContent =
                      p.currentContent \o reconstructTag(p, buffer)])

\* the depth check with the limit itself refused
CheckMaxDepth_AtLimit(p) ==
  IF p.depth >= p.config.MaxDepth THEN "ErrMaxDepthExceeded" ELSE "nil"

\* the depth check that follows every depth++
CheckMaxDepth(p) ==
  IF p.depth > p.config.MaxDepth THEN "ErrMaxDepthExceeded" ELSE "nil"

\* an opening tag that always makes a node of its own
processOpeningTag_AlwaysNew(p, buffer, elementName, attributes) ==
  IF p.depth = 0
  THEN LET r == NewNode(p, XmlNode(elementName, attributes, <<>>, TRUE,
                                   p.tagStartPos, 0))
           p2 == [r.p EXCEPT !.astNodes =
                               Append(r.p.astNodes, XmlASTNode(r.ptr, p.tagStartPos)),
                             !.currentPartialNode = r.ptr,
                             !.partialNodeIndex = Len(r.p.astNodes),
                             !.xmlStack = Append(r.p.xmlStack, r.ptr),
                             !.currentContent = <<>>,
                             !.depth = r.p.depth + 1]
       IN [p |-> p2, err |-> CheckMaxDepth(p2)]
  ELSE LET p1 == SyncContent([p EXCEPT !.currentContent =
                                p.currentContent \o reconstructTag(p, buffer)])
           p2 == [p1 EXCEPT !.depth = p1.depth + 1]
       IN [p |-> p2, err |-> CheckMaxDepth(p2)]

\* the opening-tag branch of processCompleteTag: [p, err]
processOpeningTag(p, buffer, elementName, attributes) ==
  IF p.depth = 0
  THEN IF p.currentPartialNode # NilNode /\ p.partialNodeIndex >= 0
       THEN LET p1 == [p EXCEPT !.heap[p.currentPartialNode].Name = elementName,
                                !.heap[p.currentPartialNode].Attributes = attributes]
            IN IF Len(p1.xmlStack) = 0
                  \/ p1.xmlStack[Len(p1.xmlStack)] # p1.currentPartialNode
               THEN LET p2 == [p1 EXCEPT !.xmlStack =
                                           Append(p1.xmlStack, p1.currentPartialNode),
                                         !.currentContent = <<>>,
                                         !.depth = p1.depth + 1]
                    IN [p |-> p2, err |-> CheckMaxDepth(p2)]
               ELSE [p |-> p1, err |-> "nil"]
       ELSE LET r == NewNode(p, XmlNode(elementName, attributes, <<>>, TRUE,
                                        p.tagStartPos, 0))
                p2 == [r.p EXCEPT !.astNodes =
                                    Append(r.p.astNodes, XmlASTNode(r.ptr, p.tagStartPos)),
                                  !.currentPartialNode = r.ptr,
                                  !.partialNodeIndex = Len(r.p.astNodes),
                                  !.xmlStack = Append(r.p.xmlStack, r.ptr),
                                  !.currentContent = <<>>,
                                  !.depth = r.p.depth + 1]
            IN [p |-> p2, err |-> CheckMaxDepth(p2)]
  ELSE LET p1 == SyncContent([p EXCEPT !.currentContent =
                                p.currentContent \o reconstructTag(p, buffer)])
           p2 == [p1 EXCEPT !.depth = p1.depth + 1]
       IN [p |-> p2, err |-> CheckMaxDepth(p2)]

\* the kind processCompleteTag gives the collected tag
TagKind(p, buffer) ==
  IF Len(p.tagTokens) < 3 THEN "invalid"
  ELSE LET info == TagInfo(p, buffer)
       IN IF info.isClosing THEN "closing"
          ELSE IF info.isSelfClosing THEN "selfClosing"
          ELSE "opening"

\* processCompleteTag once the tag's type is determined: [p, err]
processTagByType(p, buffer, info) ==
  IF info.isClosing
  THEN [p |-> processClosingTag(p, buffer), err |-> "nil"]
  ELSE IF info.isSelfClosing
  THEN [p |-> processSelfClosingTag(p, buffer, info.elementName, info.attributes),
        err |-> "nil"]
  ELSE processOpeningTag(p, buffer, info.elementName, info.attributes)

\* processCompleteTag: [p, err]
processCompleteTag(p, buffer) ==
  IF Len(p.tagTokens) < 3 THEN [p |-> p, err |-> "nil"]
  ELSE processTagByType(p, buffer, TagInfo(p, buffer))

\* the TokenIncomplete case without the look-back at the content's last '<'
processIncomplete_NoStrip(p, buffer, token) ==
  IF token.Complete THEN p
  ELSE IF p.depth = 0
  THEN LET tagName == extractPartialTagName(getValue(buffer, token))
       IN IF p.currentPartialNode # NilNode /\ p.partialNodeIndex >= 0
          THEN IF tagName # <<>> /\ tagName # p.heap[p.currentPartialNode].Name
               THEN [p EXCEPT !.heap[p.currentPartialNode].Name = tagName]
               ELSE p
          ELSE LET r == NewNode(p, XmlNode(tagName, EmptyMap, <<>>, TRUE,
                                           token.Start, 0))
               IN [r.p EXCEPT !.astNodes =
                                Append(r.p.astNodes, XmlASTNode(r.ptr, token.Start)),
                              !.currentPartialNode = r.ptr,
                              !.partialNodeIndex = Len(r.p.astNodes)]
  ELSE LET value == getValue(buffer, token)
       IN IF isClosingTagFragment(value)
          THEN p
          ELSE SyncContent([p EXCEPT !.currentContent = p.currentContent \o value])

\* the TokenIncomplete case with the whole content dropped at a closing fragment
processIncomplete_DropContent(p, buffer, token) ==
  IF token.Complete THEN p
  ELSE IF p.depth = 0
  THEN LET tagName == extractPartialTagName(getValue(buffer, token))
       IN IF p.currentPartialNode # NilNode /\ p.partialNodeIndex >= 0
          THEN IF tagName # <<>> /\ tagName # p.heap[p.currentPartialNode].Name
               THEN [p EXCEPT !.heap[p.currentPartialNode].Name = tagName]
               ELSE p
          ELSE LET r == NewNode(p, XmlNode(tagName, EmptyMap, <<>>, TRUE,
                                           token.Start, 0))
               IN [r.p EXCEPT !.astNodes =
                                Append(r.p.astNodes, XmlASTNode(r.ptr, token.Start)),
                              !.currentPartialNode = r.ptr,
                              !.partialNodeIndex = Len(r.p.astNodes)]
  ELSE LET value == getValue(buffer, token)
       IN IF isClosingTagFragment(value)
          THEN IF HasSuffix(p.currentContent, <<"<">>)
               THEN SyncContent([p EXCEPT !.currentContent = <<>>])
               ELSE p
          ELSE SyncContent([p EXCEPT !.currentContent = p.currentContent \o value])

\* the TokenIncomplete case of processToken
processIncomplete(p, buffer, token) ==
  IF token.Complete THEN p
  ELSE IF p.depth = 0
  THEN LET tagName == extractPartialTagName(getValue(buffer, token))
       IN IF p.currentPartialNode # NilNode /\ p.partialNodeIndex >= 0
          THEN IF tagName # <<>> /\ tagName # p.heap[p.currentPartialNode].Name
               THEN [p EXCEPT !.heap[p.currentPartialNode].Name = tagName]
               ELSE p
          ELSE LET r == NewNode(p, XmlNode(tagName, EmptyMap, <<>>, TRUE,
                                           token.Start, 0))
               IN [r.p EXCEPT !.astNodes =
                                Append(r.p.astNodes, XmlASTNode(r.ptr, token.Start)),
                              !.currentPartialNode = r.ptr,
                              !.partialNodeIndex = Len(r.p.astNodes)]
  ELSE LET value == getValue(buffer, token)
       IN IF isClosingTagFragment(value)
          THEN IF HasSuffix(p.currentContent, <<"<">>)
               THEN SyncContent([p EXCEPT !.currentContent =
                                   Slice(p.currentContent, 0, Len(p.currentContent) - 1)])
               ELSE p
          ELSE SyncContent([p EXCEPT !.currentContent = p.currentContent \o value])

\* what the log keeps of the tag in p1.tagTokens, processCompleteTag having
\* returned r: kind, name, offset of '<', depth before and after, and the error
TagEvent(p1, buffer, r) ==
  [kind |-> TagKind(p1, buffer),
   name |-> TagInfo(p1, buffer).elementName,
   pos |-> p1.tagStartPos,
   before |-> p1.depth,
   depth |-> r.p.depth,
   err |-> r.err]

\* the TokenCloseBracket case after processCompleteTag returned r; an error
\* returns before collectingTag and tagTokens are reset
processTagResult(s, r, ev) ==
  IF r.err # "nil"
  THEN [s EXCEPT !.p = r.p, !.err = r.err, !.log = Append(s.log, ev)]
  ELSE [s EXCEPT !.p = [r.p EXCEPT !.collectingTag = FALSE, !.tagTokens = <<>>],
                 !.log = Append(s.log, ev)]

\* the TokenCloseBracket case for the parser p1 that holds the whole tag
processCloseBracket(s, p1, r) ==
  processTagResult(s, r, TagEvent(p1, s.t.buffer, r))

\* processToken with a top-level text joined to the text node before it
processToken_JoinText(s, token) ==
  CASE token.Type = "Text" ->
         IF s.p.depth > 0
         THEN [s EXCEPT !.p = SyncContent([s.p EXCEPT !.currentContent =
                                s.p.currentContent \o getValue(s.t.buffer, token)])]
         ELSE IF s.p.astNodes # <<>> /\ s.p.astNodes[Len(s.p.astNodes)].Type = "Text"
         THEN [s EXCEPT !.p = [s.p EXCEPT
                 !.astNodes[Len(s.p.astNodes)].Text =
                    s.p.astNodes[Len(s.p.astNodes)].Text \o getValue(s.t.buffer, token),
                 !.textParts = Append(s.p.textParts, getValue(s.t.buffer, token))]]
         ELSE [s EXCEPT !.p = [s.p EXCEPT
                 !.astNodes = Append(s.p.astNodes,
                                     TextASTNode(getValue(s.t.buffer, token),
                                                 token.Start)),
                 !.textParts = Append(s.p.textParts, getValue(s.t.buffer, token))]]
    [] token.Type = "OpenBracket" ->
         [s EXCEPT !.p = [s.p EXCEPT !.collectingTag = TRUE,
                                     !.tagTokens = <<token>>,
                                     !.tagStartPos = token.Start]]
    [] token.Type \in {"Slash", "ElementName", "AttributeName", "Equals",
                       "AttributeValue"} ->
         IF s.p.collectingTag
         THEN [s EXCEPT !.p = [s.p EXCEPT !.tagTokens = Append(s.p.tagTokens, token)]]
         ELSE s
    [] token.Type = "CloseBracket" ->
         IF s.p.collectingTag
         THEN processCloseBracket(
                s, [s.p EXCEPT !.tagTokens = Append(s.p.tagTokens, token)],
                processCompleteTag([s.p EXCEPT !.tagTokens = Append(s.p.tagTokens, token)],
                                   s.t.buffer))
         ELSE s
    [] token.Type = "Incomplete" ->
         [s EXCEPT !.p = processIncomplete(s.p, s.t.buffer, token)]
    [] OTHER -> s

\* processToken on the loop state s = [t, p, err, log, toks]; log lists the
\* tags completed during the call, toks the tokens NextToken returned
processToken(s, token) ==
  CASE token.Type = "Text" ->
         IF s.p.depth > 0
         THEN [s EXCEPT !.p = SyncContent([s.p EXCEPT !.currentContent =
                                s.p.currentContent \o getValue(s.t.buffer, token)])]
         ELSE [s EXCEPT !.p = [s.p EXCEPT
                 !.astNodes = Append(s.p.astNodes,
                                     TextASTNode(getValue(s.t.buffer, token),
                                                 token.Start)),
                 !.textParts = Append(s.p.textParts, getValue(s.t.buffer, token))]]
    [] token.Type = "OpenBracket" ->
         [s EXCEPT !.p = [s.p EXCEPT !.collectingTag = TRUE,
                                     !.tagTokens = <<token>>,
                                     !.tagStartPos = token.Start]]
    [] token.Type \in {"Slash", "ElementName", "AttributeName", "Equals",
                       "AttributeValue"} ->
         IF s.p.collectingTag
         THEN [s EXCEPT !.p = [s.p EXCEPT !.tagTokens = Append(s.p.tagTokens, token)]]
         ELSE s
    [] token.Type = "CloseBracket" ->
         IF s.p.collectingTag
         THEN processCloseBracket(
                s, [s.p EXCEPT !.tagTokens = Append(s.p.tagTokens, token)],
                processCompleteTag([s.p EXCEPT !.tagTokens = Append(s.p.tagTokens, token)],
                                   s.t.buffer))
         ELSE s
    [] token.Type = "Incomplete" ->
         [s EXCEPT !.p = processIncomplete(s.p, s.t.buffer, token)]
    [] OTHER -> s

RECURSIVE processNewTokens(_)

\* the pull loop going on to the next token whatever processToken returned
processNewTokensAfter_KeepGoing(s) == processNewTokens(s)

\* the pull loop discarding the unread input when processToken fails
processNewTokensAfter_DropRest(s) ==
  IF s.err # "nil" THEN [s EXCEPT !.t.position = Len(s.t.buffer)]
  ELSE processNewTokens(s)

\* the pull loop after processToken: it stops at the first error
processNewTokensAfter(s) ==
  IF s.err # "nil" THEN s ELSE processNewTokens(s)

\* the pull loop with the token NextToken returned: it stops at nil
processNewTokensWith(s, r) ==
  IF r.tok = NoToken THEN [s EXCEPT !.t = r.t]
  ELSE processNewTokensAfter(
         processToken([s EXCEPT !.t = r.t, !.toks = Append(s.toks, r.tok)], r.tok))

\* the pull loop of processNewTokens
processNewTokens(s) == processNewTokensWith(s, NextToken(s.t))

\* one round of the pull loop, from the loop state s: the token pulled and
\* processed, or the tokenizer alone advanced when NextToken returns nil
processNewTokensRound(s, r) ==
  IF r.tok = NoToken THEN [s EXCEPT !.t = r.t]
  ELSE processToken([s EXCEPT !.t = r.t, !.toks = Append(s.toks, r.tok)], r.tok)

processNewTokensStep(s) == processNewTokensRound(s, NextToken(s.t))

\* StreamXmlParser.Append on (t, p): the loop state it ends in
AppendCall(t, p, data) ==
  processNewTokens([t |-> TokenizerAppend(t, data), p |-> p, err |-> "nil",
                    log |-> <<>>, toks |-> <<>>])

(***************************************************************************)
(* The queries.                                                            *)
(***************************************************************************)
RECURSIVE ConcatText(_, _)
ConcatText(astNodes, k) ==
  IF k > Len(astNodes) THEN <<>>
  ELSE (IF astNodes[k].Type = "Text" THEN astNodes[k].Text ELSE <<>>)
         \o ConcatText(astNodes, k + 1)

GetText(p) == ConcatText(p.astNodes, 1)

\* the pointers GetXmlNodes returns, in tree order
GetXmlNodePtrs(p) ==
  LET idx == {i \in 1..Len(p.astNodes) :
                p.astNodes[i].Type = "Xml" /\ p.astNodes[i].XmlNode # NilNode}
      RECURSIVE Collect(_)
      Collect(k) == IF k > Len(p.astNodes) THEN <<>>
                    ELSE (IF k \in idx THEN <<p.astNodes[k].XmlNode>> ELSE <<>>)
                           \o Collect(k + 1)
  IN Collect(1)

\* GetXmlNodes: the nodes the returned pointers lead to
GetXmlNodes(p) ==
  LET ptrs == GetXmlNodePtrs(p)
  IN [i \in 1..Len(ptrs) |-> p.heap[ptrs[i]]]

(***************************************************************************)
(* The specification: a parser built with one of Configs is fed chunks.    *)
(***************************************************************************)
AllowOnlyA == [isNil |-> FALSE, names |-> {<<"a">>}]

Config(maxDepth, allowed) ==
  [MaxDepth |-> maxDepth, MaxBufferSize |-> DefaultMaxBufferSize,
   AllowedElements |-> allowed,
   BufferCleanupThreshold |-> DefaultBufferCleanupThreshold]

Configs == {DefaultConfig, Config(1, NilElements), Config(DefaultMaxDepth, AllowOnlyA)}

Chunks == UNION {[1..n -> Alphabet] : n \in 0..MaxChunk}

\* a run that feeds no scripted document
NoInput == [doc |-> <<>>, rest |-> <<>>]

\* the threads that call the parser
Threads == {1, 2}

\* the zero value of sync.RWMutex
Unlocked == [writer |-> 0, readers |-> {}]

\* a thread outside every call
NoLocal ==
  [data |-> <<>>, log |-> <<>>, toks |-> <<>>, before |-> <<>>, text |-> <<>>,
   ptrs |-> <<>>, saw |-> <<>>, was |-> <<>>, ast |-> <<>>]

\* a single caller: nobody holds the lock between two calls
Sequential ==
  /\ mu = Unlocked
  /\ pc = [th \in Threads |-> "idle"]
  /\ local = [th \in Threads |-> NoLocal]

Init ==
  \E config \in Configs :
    /\ tokenizer = NewParserTokenizer(config)
    /\ parser = NewStreamXmlParserWithConfig(config)
    /\ err = "nil"
    /\ chunk = <<>>
    /\ calllog = <<>>
    /\ tokenlog = <<>>
    /\ everFailed = FALSE
    /\ empties = 0
    /\ openedAt = 0
    /\ input = NoInput
    /\ Sequential

\* the opening tags in log that opened a top-level element
TopLevelOpens(log) ==
  {k \in 1..Len(log) : log[k].kind = "opening" /\ log[k].before = 0}

\* the offset just past the last of them, or `at` when there is none
OpenedAt(buffer, log, at) ==
  IF TopLevelOpens(log) = {} THEN at
  ELSE ScanTo(buffer,
              log[CHOOSE k \in TopLevelOpens(log) :
                    \A j \in TopLevelOpens(log) : j <= k].pos,
              {">"}) + 1

\* the variables once the call has ended in the loop state s
AppendReturns(s, data) ==
  /\ tokenizer' = s.t
  /\ parser' = s.p
  /\ err' = s.err
  /\ calllog' = s.log
  /\ tokenlog' = s.toks
  /\ everFailed' = (everFailed \/ s.err # "nil")
  /\ openedAt' = OpenedAt(s.t.buffer, s.log, openedAt)
  /\ chunk' = data

\* one call p.Append(data) by a single caller
DoAppend(data) ==
  /\ AppendReturns(AppendCall(tokenizer, parser, data), data)
  /\ UNCHANGED <<mu, pc, local>>

\* the caller appends any chunk
ParserAppend(data) ==
  /\ Len(tokenizer.buffer) + Len(data) <= MaxLen
  /\ data = <<>> => empties < MaxEmpty
  /\ empties' = IF data = <<>> THEN empties + 1 ELSE empties
  /\ DoAppend(data)
  /\ UNCHANGED input

Next == \E data \in Chunks : ParserAppend(data)

Spec == Init /\ [][Next]_vars

(***************************************************************************)
(* Parsers with a small depth limit, fed chunks.                           *)
(***************************************************************************)
DepthConfigs == {Config(1, NilElements), Config(2, NilElements), Config(1, AllowOnlyA)}

InitDepth ==
  \E config \in DepthConfigs :
    /\ tokenizer = NewParserTokenizer(config)
    /\ parser = NewStreamXmlParserWithConfig(config)
    /\ err = "nil"
    /\ chunk = <<>>
    /\ calllog = <<>>
    /\ tokenlog = <<>>
    /\ everFailed = FALSE
    /\ empties = 0
    /\ openedAt = 0
    /\ input = NoInput
    /\ Sequential

SpecDepth == InitDepth /\ [][Next]_vars

(***************************************************************************)
(* A parser with MaxDepth = 1 fed chunks of text and opening tags long     *)
(* enough to hold text, a whole tag and more.                              *)
(***************************************************************************)
LongChunks == UNION {[1..n -> Alphabet \ {"/"}] : n \in 0..(MaxChunk + 2)}

InitAbort ==
  /\ tokenizer = NewParserTokenizer(Config(1, NilElements))
  /\ parser = NewStreamXmlParserWithConfig(Config(1, NilElements))
  /\ err = "nil"
  /\ chunk = <<>>
  /\ calllog = <<>>
  /\ tokenlog = <<>>
  /\ everFailed = FALSE
  /\ empties = 0
  /\ openedAt = 0
  /\ input = NoInput
  /\ Sequential

\* the caller appends any such chunk, to a buffer one character longer
LongAppend(data) ==
  /\ Len(tokenizer.buffer) + Len(data) <= MaxLen + 1
  /\ data = <<>> => empties < MaxEmpty
  /\ empties' = IF data = <<>> THEN empties + 1 ELSE empties
  /\ DoAppend(data)
  /\ UNCHANGED input

NextAbort == \E data \in LongChunks : LongAppend(data)

SpecAbort == InitAbort /\ [][NextAbort]_vars

(***************************************************************************)
(* The per-character run of TestMultiRoundAppendBreakEveryChar: a document *)
(* text, one element with attributes and text content, text, is fed one    *)
(* character per Append.                                                   *)
(***************************************************************************)
Befores == {<<>>, <<"B", " ">>}
Names == {<<"t">>, <<"t", "o">>}
Contents == {<<>>, <<"c">>, <<"c", " ", "d">>}
Afters == {<<>>, <<" ", "A">>}

\* an attribute as written: name, value, and the quote around the value
Attr(k, v, q) == [k |-> k, v |-> v, q |-> q]

AttrLists ==
  { <<Attr(<<"n">>, <<"v">>, <<"\"">>)>>,
    <<Attr(<<"n">>, <<"v", " ", "w">>, <<"'">>)>>,
    <<Attr(<<"n">>, <<"v">>, <<"\"">>), Attr(<<"m">>, <<"u">>, <<>>)>> }

RECURSIVE AttrText(_, _)
AttrText(attrs, k) ==
  IF k > Len(attrs) THEN <<>>
  ELSE <<" ">> \o attrs[k].k \o <<"=">> \o attrs[k].q \o attrs[k].v \o attrs[k].q
         \o AttrText(attrs, k + 1)

RECURSIVE AttrMap(_, _)
AttrMap(attrs, k) ==
  IF k = 0 THEN EmptyMap
  ELSE MapPut(AttrMap(attrs, k - 1), attrs[k].k, attrs[k].v)

Document(before, name, attrs, content, after) ==
  LET doc == before \o <<"<">> \o name \o AttrText(attrs, 1) \o <<">">>
               \o content \o <<"<", "/">> \o name \o <<">">> \o after
  IN [before |-> before, name |-> name, attrs |-> attrs, content |-> content,
      after |-> after, doc |-> doc, rest |-> doc]

Documents ==
  {Document(b, n, l, c, a) :
     b \in Befores, n \in Names, l \in AttrLists, c \in Contents, a \in Afters}

CharConfigs == {DefaultConfig, Config(1, NilElements)}

InitChar ==
  \E config \in CharConfigs, d \in Documents :
    /\ tokenizer = NewParserTokenizer(config)
    /\ parser = NewStreamXmlParserWithConfig(config)
    /\ err = "nil"
    /\ chunk = <<>>
    /\ calllog = <<>>
    /\ tokenlog = <<>>
    /\ everFailed = FALSE
    /\ empties = 0
    /\ openedAt = 0
    /\ input = d
    /\ Sequential

\* the caller appends the next n characters of the document
FeedChunk(n) ==
  /\ n <= Len(input.rest)
  /\ DoAppend(SubSeq(input.rest, 1, n))
  /\ input' = [input EXCEPT !.rest = SubSeq(input.rest, n + 1, Len(input.rest))]
  /\ UNCHANGED empties

\* the loop body: p.Append(string(char))
FeedChar == FeedChunk(1)

NextChar == FeedChar

SpecChar == InitChar /\ [][NextChar]_vars

\* the documents named "to" that have content, cut into chunks at any places
SplitDocuments == {d \in Documents : Len(d.name) = 2 /\ Len(d.content) = 3}

InitSplit ==
  \E d \in SplitDocuments :
    /\ tokenizer = NewParserTokenizer(DefaultConfig)
    /\ parser = NewStreamXmlParserWithConfig(DefaultConfig)
    /\ err = "nil"
    /\ chunk = <<>>
    /\ calllog = <<>>
    /\ tokenlog = <<>>
    /\ everFailed = FALSE
    /\ empties = 0
    /\ openedAt = 0
    /\ input = d
    /\ Sequential

NextSplit == \E n \in 1..Len(input.rest) : FeedChunk(n)

SpecSplit == InitSplit /\ [][NextSplit]_vars

(***************************************************************************)
(* Concurrent callers.  Append holds mu.Lock() from its first statement to *)
(* its return and pulls the tokens one by one; GetText, GetXmlNode,        *)
(* GetXmlNodes and GetAST hold mu.RLock() while they walk astNodes.  The   *)
(* *XmlNode pointers a query returned are read by the caller afterwards,   *)
(* outside every lock.                                                     *)
(***************************************************************************)
\* a Lock() that waits for the writer only
CanLock_IgnoreReaders == mu.writer = 0

\* mu.Lock() returns once nobody holds the lock
CanLock == mu.writer = 0 /\ mu.readers = {}

\* mu.RLock() returns once no writer holds the lock
CanRLock == mu.writer = 0

\* the loop state of the Append thread th is in
LoopState(th) ==
  [t |-> tokenizer, p |-> parser, err |-> "nil", log |-> local[th].log,
   toks |-> local[th].toks]

\* Append(data) up to the pull loop: mu.Lock(), tokenizer.Append(data)
AppendLock(th, data) ==
  /\ pc[th] = "idle"
  /\ data # <<>>
  /\ Len(tokenizer.buffer) + Len(data) < MaxLen
  /\ CanLock
  /\ mu' = [mu EXCEPT !.writer = th]
  /\ pc' = [pc EXCEPT ![th] = "Append"]
  /\ local' = [local EXCEPT ![th] =
                 [NoLocal EXCEPT !.data = data,
                                 !.before = <<[t |-> tokenizer, p |-> parser]>>]]
  /\ tokenizer' = TokenizerAppend(tokenizer, data)
  /\ UNCHANGED <<parser, err, chunk, calllog, tokenlog, everFailed, empties,
                 openedAt, input>>

\* one round of the pull loop that does not end the call
AppendToken(th) ==
  /\ pc[th] = "Append"
  /\ NextToken(tokenizer).tok # NoToken
  /\ processNewTokensStep(LoopState(th)).err = "nil"
  /\ tokenizer' = processNewTokensStep(LoopState(th)).t
  /\ parser' = processNewTokensStep(LoopState(th)).p
  /\ local' = [local EXCEPT ![th].log = processNewTokensStep(LoopState(th)).log,
                            ![th].toks = processNewTokensStep(LoopState(th)).toks]
  /\ UNCHANGED <<err, chunk, calllog, tokenlog, everFailed, empties, openedAt,
                 input, mu, pc>>

\* the round that ends the call, NextToken having returned nil or
\* processToken an error: Append returns and the deferred mu.Unlock() runs
AppendReturn(th) ==
  /\ pc[th] = "Append"
  /\ \/ NextToken(tokenizer).tok = NoToken
     \/ processNewTokensStep(LoopState(th)).err # "nil"
  /\ AppendReturns(processNewTokensStep(LoopState(th)), local[th].data)
  /\ mu' = [mu EXCEPT !.writer = 0]
  /\ pc' = [pc EXCEPT ![th] = "idle"]
  /\ local' = [local EXCEPT ![th] = NoLocal]
  /\ UNCHANGED <<empties, input>>

\* a query up to its loop over astNodes: mu.RLock()
QueryLock(th) ==
  /\ pc[th] = "idle"
  /\ CanRLock
  /\ mu' = [mu EXCEPT !.readers = @ \cup {th}]
  /\ pc' = [pc EXCEPT ![th] = "Query"]
  /\ local' = [local EXCEPT ![th] = NoLocal]
  /\ UNCHANGED <<tokenizer, parser, err, chunk, calllog, tokenlog, everFailed,
                 empties, openedAt, input>>

\* the query's loop and return: GetText's string and GetXmlNodes' pointers,
\* then the deferred mu.RUnlock()
QueryReturn(th) ==
  /\ pc[th] = "Query"
  /\ mu' = [mu EXCEPT !.readers = @ \ {th}]
  /\ pc' = [pc EXCEPT ![th] = IF GetXmlNodePtrs(parser) = <<>> THEN "idle" ELSE "Caller"]
  /\ local' = [local EXCEPT ![th].text = GetText(parser),
                            ![th].ptrs = GetXmlNodePtrs(parser)]
  /\ UNCHANGED <<tokenizer, parser, err, chunk, calllog, tokenlog, everFailed,
                 empties, openedAt, input>>

\* what the last Append that returned left: the state before the Append in
\* progress, if there is one
Committed ==
  IF \E th \in Threads : pc[th] = "Append"
  THEN local[CHOOSE th \in Threads : pc[th] = "Append"].before[1]
  ELSE [t |-> tokenizer, p |-> parser]

\* the caller reads a node through a pointer a query returned, holding no
\* lock; `was` is the node as the last Append that returned left it
ReadNode(th) ==
  /\ pc[th] = "Caller"
  /\ \E i \in 1..Len(local[th].ptrs) :
       local' = [local EXCEPT ![th].saw = <<parser.heap[local[th].ptrs[i]]>>,
                              ![th].was = <<Committed.p.heap[local[th].ptrs[i]]>>,
                              ![th].ptrs = <<>>]
  /\ pc' = [pc EXCEPT ![th] = "idle"]
  /\ UNCHANGED <<tokenizer, parser, err, chunk, calllog, tokenlog, everFailed,
                 empties, openedAt, input, mu>>

ConcConfigs == {DefaultConfig, Config(1, NilElements)}

InitConc ==
  \E config \in ConcConfigs :
    /\ tokenizer = NewParserTokenizer(config)
    /\ parser = NewStreamXmlParserWithConfig(config)
    /\ err = "nil"
    /\ chunk = <<>>
    /\ calllog = <<>>
    /\ tokenlog = <<>>
    /\ everFailed = FALSE
    /\ empties = 0
    /\ openedAt = 0
    /\ input = NoInput
    /\ Sequential

NextConc ==
  \E th \in Threads :
    \/ \E data \in Chunks : AppendLock(th, data)
    \/ AppendToken(th)
    \/ AppendReturn(th)
    \/ QueryLock(th)
    \/ QueryReturn(th)
    \/ ReadNode(th)

SpecConc == InitConc /\ [][NextConc]_vars

(***************************************************************************)
(* One caller, with the pull loop of Append taken one NextToken at a time. *)
(* A call that has started goes on running, so the rounds of its loop are  *)
(* weakly fair.  A round is possible exactly while the call is in its      *)
(* loop, so WF_vars(PullRound) is written out with pc[1] = "Append" for    *)
(* ENABLED <<PullRound>>_vars.                                             *)
(***************************************************************************)
\* Append(data) up to the pull loop, the empty chunk included
PullAppend(data) ==
  /\ pc[1] = "idle"
  /\ Len(tokenizer.buffer) + Len(data) < MaxLen
  /\ data = <<>> => empties < MaxEmpty
  /\ empties' = IF data = <<>> THEN empties + 1 ELSE empties
  /\ mu' = [mu EXCEPT !.writer = 1]
  /\ pc' = [pc EXCEPT ![1] = "Append"]
  /\ local' = [local EXCEPT ![1] =
                 [NoLocal EXCEPT !.data = data,
                                 !.before = <<[t |-> tokenizer, p |-> parser]>>]]
  /\ tokenizer' = TokenizerAppend(tokenizer, data)
  /\ UNCHANGED <<parser, err, chunk, calllog, tokenlog, everFailed, openedAt, input>>

\* one round of the pull loop, the last one included
PullRound == AppendToken(1) \/ AppendReturn(1)

NextPull ==
  \/ \E data \in Chunks : PullAppend(data)
  \/ AppendToken(1)
  \/ AppendReturn(1)

\* WF_vars(PullRound)
PullFairness == []<>(pc[1] # "Append") \/ []<><<PullRound>>_vars

SpecPull == InitConc /\ [][NextPull]_vars /\ PullFairness

(***************************************************************************)
(* A caller that works on what GetAST returned: the returned slice is the  *)
(* caller's own, the *XmlNode pointers in it are the parser's.             *)
(***************************************************************************)
\* the one caller of this run
Caller == 1

\* a later p.Append(data); the caller lets go of the tree it held
TreeAppend(data) ==
  /\ Len(tokenizer.buffer) + Len(data) < MaxLen
  /\ data # <<>>
  /\ AppendReturns(AppendCall(tokenizer, parser, data), data)
  /\ pc' = [pc EXCEPT ![Caller] = "idle"]
  /\ local' = [local EXCEPT ![Caller] = NoLocal]
  /\ UNCHANGED <<empties, input, mu>>

\* ast := p.GetAST(): make + copy of astNodes, under mu.RLock()
GetAST ==
  /\ pc[Caller] = "idle"
  /\ parser.astNodes # <<>>
  /\ pc' = [pc EXCEPT ![Caller] = "Tree"]
  /\ local' = [local EXCEPT ![Caller].ast = parser.astNodes]
  /\ UNCHANGED <<tokenizer, parser, err, chunk, calllog, tokenlog, everFailed,
                 empties, openedAt, input, mu>>

\* ast[i] = ASTNode{Type: ASTNodeText, Text: "w"}
ReplaceEntry(i) ==
  /\ pc[Caller] = "Tree"
  /\ i \in 1..Len(local[Caller].ast)
  /\ pc' = [pc EXCEPT ![Caller] = "Wrote"]
  /\ local' = [local EXCEPT ![Caller].ast[i] = TextASTNode(<<"w">>, 0)]
  /\ UNCHANGED <<tokenizer, parser, err, chunk, calllog, tokenlog, everFailed,
                 empties, openedAt, input, mu>>

\* ast[0], ast[len(ast)-1] = ast[len(ast)-1], ast[0]
ReorderEntries ==
  /\ pc[Caller] = "Tree"
  /\ Len(local[Caller].ast) >= 2
  /\ pc' = [pc EXCEPT ![Caller] = "Wrote"]
  /\ local' = [local EXCEPT
                 ![Caller].ast[1] = local[Caller].ast[Len(local[Caller].ast)],
                 ![Caller].ast[Len(local[Caller].ast)] = local[Caller].ast[1]]
  /\ UNCHANGED <<tokenizer, parser, err, chunk, calllog, tokenlog, everFailed,
                 empties, openedAt, input, mu>>

\* ast[i].XmlNode.Name = "w": a write through the pointer the copy shares
\* with the parser's astNodes
WriteNode(i) ==
  /\ pc[Caller] = "Tree"
  /\ i \in 1..Len(local[Caller].ast)
  /\ local[Caller].ast[i].XmlNode # NilNode
  /\ pc' = [pc EXCEPT ![Caller] = "Wrote"]
  /\ parser' = [parser EXCEPT !.heap[local[Caller].ast[i].XmlNode].Name = <<"w">>]
  /\ UNCHANGED <<tokenizer, err, chunk, calllog, tokenlog, everFailed, empties,
                 openedAt, input, mu, local>>

InitTree ==
  /\ tokenizer = NewParserTokenizer(DefaultConfig)
  /\ parser = NewStreamXmlParserWithConfig(DefaultConfig)
  /\ err = "nil"
  /\ chunk = <<>>
  /\ calllog = <<>>
  /\ tokenlog = <<>>
  /\ everFailed = FALSE
  /\ empties = 0
  /\ openedAt = 0
  /\ input = NoInput
  /\ Sequential

NextTree ==
  \/ \E data \in Chunks : TreeAppend(data)
  \/ GetAST
  \/ \E i \in 1..MaxLen : ReplaceEntry(i)
  \/ ReorderEntries
  \/ \E i \in 1..MaxLen : WriteNode(i)

SpecTree == InitTree /\ [][NextTree]_vars

(***************************************************************************)
(* Construction from any configuration, valid or not, then any input.      *)
(***************************************************************************)
\* []string{}: a list that allows nothing
AllowNothing == [isNil |-> FALSE, names |-> {}]

SuppliedConfigs ==
  [MaxDepth : {-1, 0, 1, DefaultMaxDepth},
   MaxBufferSize : {0, MinBufferSize - 1, MinBufferSize, DefaultMaxBufferSize},
   AllowedElements : {NilElements, AllowOnlyA, AllowNothing},
   BufferCleanupThreshold : {-1, 0, DefaultBufferCleanupThreshold}]

\* input.config remembers the argument of NewStreamXmlParserWithConfig
InitConfig ==
  \E config \in SuppliedConfigs :
    /\ tokenizer = NewParserTokenizer(config)
    /\ parser = NewStreamXmlParserWithConfig(config)
    /\ err = "nil"
    /\ chunk = <<>>
    /\ calllog = <<>>
    /\ tokenlog = <<>>
    /\ everFailed = FALSE
    /\ empties = 0
    /\ openedAt = 0
    /\ input = [doc |-> <<>>, rest |-> <<>>, config |-> config]
    /\ Sequential

\* p.Append(data) of a short input
ConfigAppend(data) ==
  /\ data # <<>>
  /\ Len(tokenizer.buffer) + Len(data) < MaxLen
  /\ DoAppend(data)
  /\ UNCHANGED <<empties, input>>

NextConfig == \E data \in Chunks : ConfigAppend(data)

SpecConfig == InitConfig /\ [][NextConfig]_vars

(***************************************************************************)
(* One tag between two texts, as in TestTokenizeSimpleOpenTag,             *)
(* TestTokenizeClosingTag, TestTokenizeSelfClosingTag,                     *)
(* TestTokenizeTagWithAttributes and TestSetAllowedElements, cut into      *)
(* chunks at any offsets.                                                  *)
(***************************************************************************)
TagNames == {<<"a">>, <<"b">>}

\* k="v", k='/' and the unquoted j=w; no value holds '>', which ends the
\* tag wherever it stands (tryCompleteTag)
Attribute(k, v, quote) == [form |-> "full", k |-> k, v |-> v, quote |-> quote]

AttrDouble == Attribute(<<"k">>, <<"v">>, <<"\"">>)
AttrSingle == Attribute(<<"k">>, <<"/">>, <<"'">>)
AttrBare == Attribute(<<"j">>, <<"w">>, <<>>)

\* the malformed fragments: the name b alone, and b= without a value
AttrLone == [form |-> "name", k |-> <<"b">>, v |-> <<>>, quote |-> <<>>]
AttrNoValue == [form |-> "equals", k |-> <<"b">>, v |-> <<>>, quote |-> <<>>]

AttributeLists ==
  {<<>>, <<AttrDouble>>, <<AttrBare>>, <<AttrDouble, AttrSingle>>,
   <<AttrBare, AttrDouble>>, <<AttrSingle, AttrBare>>,
   <<AttrLone>>, <<AttrLone, AttrDouble>>, <<AttrDouble, AttrLone>>,
   <<AttrNoValue>>, <<AttrBare, AttrNoValue>>}

RECURSIVE AttributesText(_)
AttributesText(attrs) ==
  IF attrs = <<>> THEN <<>>
  ELSE <<" ">> \o attrs[1].k
       \o (IF attrs[1].form = "name" THEN <<>> ELSE <<"=">>)
       \o attrs[1].quote \o attrs[1].v \o attrs[1].quote
       \o AttributesText(Tail(attrs))

\* the ends of a tag: ">", "/>" and " />"
TagEnds == {<<>>, <<"/">>, <<" ", "/">>}

TagText(closing, name, attrs, end) ==
  <<"<">> \o (IF closing THEN <<"/">> ELSE <<>>) \o name
  \o AttributesText(attrs) \o end \o <<">">>

TagDocument(before, closing, name, attrs, end, after) ==
  [before |-> before, closing |-> closing, name |-> name, attrs |-> attrs,
   selfClosing |-> end # <<>>,
   tag |-> TagText(closing, name, attrs, end), after |-> after,
   doc |-> before \o TagText(closing, name, attrs, end) \o after,
   rest |-> before \o TagText(closing, name, attrs, end) \o after]

TagDocuments ==
  {TagDocument(before, closing, name, attrs, end, after) :
     before \in {<<>>, <<"x">>}, closing \in BOOLEAN, name \in TagNames,
     attrs \in AttributeLists, end \in TagEnds, after \in {<<>>, <<"y">>}}

TagConfigs ==
  {DefaultConfig, Config(DefaultMaxDepth, AllowOnlyA),
   Config(DefaultMaxDepth, AllowNothing)}

InitTags ==
  \E d \in TagDocuments, config \in TagConfigs :
    /\ tokenizer = NewParserTokenizer(config)
    /\ parser = NewStreamXmlParserWithConfig(config)
    /\ err = "nil"
    /\ chunk = <<>>
    /\ calllog = <<>>
    /\ tokenlog = <<>>
    /\ everFailed = FALSE
    /\ empties = 0
    /\ openedAt = 0
    /\ input = d
    /\ Sequential

SpecTags == InitTags /\ [][NextSplit]_vars

(***************************************************************************)
(* One tag with white space after '<', around '=' and between attributes,  *)
(* as in TestTokenizeWhitespaceInTags, cut into chunks at any offsets.     *)
(***************************************************************************)
RECURSIVE SpacedAttributesText(_, _, _)
SpacedAttributesText(attrs, gap, eq) ==
  IF attrs = <<>> THEN <<>>
  ELSE gap \o attrs[1].k \o eq \o <<"=">> \o eq
       \o attrs[1].quote \o attrs[1].v \o attrs[1].quote
       \o SpacedAttributesText(Tail(attrs), gap, eq)

SpacedTagText(closing, lead, name, attrs, gap, eq, trail) ==
  <<"<">> \o (IF closing THEN <<"/">> ELSE <<>>) \o lead \o name
  \o SpacedAttributesText(attrs, gap, eq) \o trail \o <<">">>

SpacedDocument(closing, lead, name, attrs, gap, eq, trail) ==
  [before |-> <<"x">>, closing |-> closing, name |-> name, attrs |-> attrs,
   selfClosing |-> FALSE, lead |-> lead,
   tag |-> SpacedTagText(closing, lead, name, attrs, gap, eq, trail),
   after |-> <<>>,
   doc |-> <<"x">> \o SpacedTagText(closing, lead, name, attrs, gap, eq, trail),
   rest |-> <<"x">> \o SpacedTagText(closing, lead, name, attrs, gap, eq, trail)]

SpacedDocuments ==
  {SpacedDocument(closing, lead, <<"a", "b">>, attrs, gap, eq, trail) :
     closing \in BOOLEAN, lead \in {<<>>, <<" ">>, <<" ", "\t">>},
     attrs \in {<<>>, <<AttrDouble>>, <<AttrBare, AttrSingle>>},
     gap \in {<<" ">>, <<" ", " ">>}, eq \in {<<>>, <<" ">>},
     trail \in {<<>>, <<" ">>}}

InitSpaces ==
  \E d \in SpacedDocuments :
    /\ tokenizer = NewParserTokenizer(DefaultConfig)
    /\ parser = NewStreamXmlParserWithConfig(DefaultConfig)
    /\ err = "nil"
    /\ chunk = <<>>
    /\ calllog = <<>>
    /\ tokenlog = <<>>
    /\ everFailed = FALSE
    /\ empties = 0
    /\ openedAt = 0
    /\ input = d
    /\ Sequential

SpecSpaces == InitSpaces /\ [][NextSplit]_vars

(***************************************************************************)
(* One tag whose quoted attribute value holds a '>', as in <a x="1>2">,    *)
(* cut into chunks at any offsets.                                         *)
(***************************************************************************)
QuotedValues == {<<">">>, <<"1", ">", "2">>, <<"v", ">">>}

QuotedDocuments ==
  {TagDocument(before, FALSE, <<"a">>, <<Attribute(<<"x">>, v, quote)>>, end, after) :
     before \in {<<>>, <<"x">>}, v \in QuotedValues, quote \in {<<"\"">>, <<"'">>},
     end \in {<<>>, <<"/">>}, after \in {<<>>, <<"y">>}}

InitQuoted ==
  \E d \in QuotedDocuments :
    /\ tokenizer = NewParserTokenizer(DefaultConfig)
    /\ parser = NewStreamXmlParserWithConfig(DefaultConfig)
    /\ err = "nil"
    /\ chunk = <<>>
    /\ calllog = <<>>
    /\ tokenlog = <<>>
    /\ everFailed = FALSE
    /\ empties = 0
    /\ openedAt = 0
    /\ input = d
    /\ Sequential

SpecQuoted == InitQuoted /\ [][NextSplit]_vars

(***************************************************************************)
(* One tag inside the open top-level element p, written with any quoting   *)
(* and white space, cut into chunks at any offsets.  A closing tag follows *)
(* its own opening tag, so that it does not close p.                       *)
(***************************************************************************)
InnerTagText(closing, lead, name, attrs, gap, eq, end) ==
  <<"<">> \o (IF closing THEN <<"/">> ELSE <<>>) \o lead \o name
  \o SpacedAttributesText(attrs, gap, eq) \o end \o <<">">>

InnerOpener(closing, name) ==
  <<"<", "p", ">">> \o (IF closing THEN <<"<">> \o name \o <<">">> ELSE <<>>)

InnerDocument(closing, lead, name, attrs, gap, eq, end) ==
  [before |-> InnerOpener(closing, name), closing |-> closing, name |-> name,
   attrs |-> attrs, selfClosing |-> (end # <<>> /\ end[Len(end)] = "/"),
   lead |-> lead,
   tag |-> InnerTagText(closing, lead, name, attrs, gap, eq, end),
   after |-> <<>>,
   doc |-> InnerOpener(closing, name)
             \o InnerTagText(closing, lead, name, attrs, gap, eq, end),
   rest |-> InnerOpener(closing, name)
              \o InnerTagText(closing, lead, name, attrs, gap, eq, end)]

InnerDocuments ==
  {InnerDocument(FALSE, lead, <<"a", "b">>, attrs, gap, eq, end) :
     lead \in {<<>>, <<" ">>},
     attrs \in {<<>>, <<AttrDouble>>, <<AttrBare, AttrSingle>>},
     gap \in {<<" ">>, <<" ", " ">>}, eq \in {<<>>, <<" ">>},
     end \in {<<>>, <<" ">>, <<"/">>, <<" ", "/">>}}
  \cup {InnerDocument(TRUE, lead, <<"a", "b">>, <<>>, <<" ">>, <<>>, end) :
          lead \in {<<>>, <<" ">>}, end \in {<<>>, <<" ">>}}

InitInner ==
  \E d \in InnerDocuments :
    /\ tokenizer = NewParserTokenizer(DefaultConfig)
    /\ parser = NewStreamXmlParserWithConfig(DefaultConfig)
    /\ err = "nil"
    /\ chunk = <<>>
    /\ calllog = <<>>
    /\ tokenlog = <<>>
    /\ everFailed = FALSE
    /\ empties = 0
    /\ openedAt = 0
    /\ input = d
    /\ Sequential

\* Append of the next n characters of the document; after MaxCuts Appends
\* the next Append carries all that is left.  empties counts the Appends.
FeedCounted(n) ==
  /\ n <= Len(input.rest)
  /\ empties < MaxCuts \/ n = Len(input.rest)
  /\ DoAppend(SubSeq(input.rest, 1, n))
  /\ input' = [input EXCEPT !.rest = SubSeq(input.rest, n + 1, Len(input.rest))]
  /\ empties' = empties + 1

NextInner == \E n \in 1..Len(input.rest) : FeedCounted(n)

SpecInner == InitInner /\ [][NextInner]_vars

(***************************************************************************)
(* A parser with MaxDepth = 1 fed an element that holds nested elements,   *)
(* with their closing tags, cut into chunks at any offsets; after an       *)
(* Append that returned ErrMaxDepthExceeded the caller may call Append     *)
(* with an empty chunk.                                                    *)
(***************************************************************************)
DeepTexts == {<<>>, <<"x">>}

DeepInners ==
  {<<"<", "b", ">">> \o mid \o <<"<", "/", "b", ">">> : mid \in DeepTexts}
  \cup {<<"<", "b", ">", "<", "c", ">", "<", "/", "c", ">", "<", "/", "b", ">">>,
        <<"<", "b", ">", "<", "/", "b", ">", "<", "c", ">", "<", "/", "c", ">">>}

DeepDocument(pre, inner, post, after) ==
  [content |-> pre \o inner \o post, after |-> after,
   doc |-> <<"<", "a", ">">> \o pre \o inner \o post \o <<"<", "/", "a", ">">> \o after,
   rest |-> <<"<", "a", ">">> \o pre \o inner \o post \o <<"<", "/", "a", ">">> \o after]

DeepDocuments ==
  {DeepDocument(pre, inner, post, after) :
     pre \in DeepTexts, inner \in DeepInners, post \in DeepTexts,
     after \in {<<>>, <<"T">>}}

InitDeep ==
  \E d \in DeepDocuments :
    /\ tokenizer = NewParserTokenizer(Config(1, NilElements))
    /\ parser = NewStreamXmlParserWithConfig(Config(1, NilElements))
    /\ err = "nil"
    /\ chunk = <<>>
    /\ calllog = <<>>
    /\ tokenlog = <<>>
    /\ everFailed = FALSE
    /\ empties = 0
    /\ openedAt = 0
    /\ input = d
    /\ Sequential

\* p.Append("") after an Append that returned ErrMaxDepthExceeded
AppendAfterError ==
  /\ err = "ErrMaxDepthExceeded"
  /\ DoAppend(<<>>)
  /\ UNCHANGED <<input, empties>>

NextDeep ==
  \/ \E n \in 1..Len(input.rest) : FeedCounted(n)
  \/ AppendAfterError

SpecDeep == InitDeep /\ [][NextDeep]_vars

(***************************************************************************)
(* The tokenizer on its own, as the tokenizer tests drive it: Append, then *)
(* NextToken until nil (collectTokens).                                    *)
(***************************************************************************)
RECURSIVE collectTokens(_, _)
collectTokens(t, tokens) ==
  IF NextToken(t).tok = NoToken THEN [t |-> NextToken(t).t, tokens |-> tokens]
  ELSE collectTokens(NextToken(t).t, Append(tokens, NextToken(t).tok))

\* tokens without the Incomplete ones and with adjacent Text tokens merged
RECURSIVE MergeTokens(_, _)
MergeTokens(tokens, out) ==
  IF tokens = <<>> THEN out
  ELSE IF tokens[1].Type = "Incomplete" THEN MergeTokens(Tail(tokens), out)
  ELSE IF /\ tokens[1].Type = "Text"
          /\ out # <<>>
          /\ out[Len(out)].Type = "Text"
          /\ out[Len(out)].End = tokens[1].Start
  THEN MergeTokens(Tail(tokens),
                   [out EXCEPT ![Len(out)].End = tokens[1].End])
  ELSE MergeTokens(Tail(tokens), Append(out, tokens[1]))

\* every string shorter than MaxLen characters, and tags with attributes
TokenizerInputs ==
  {[doc |-> w, rest |-> w] : w \in UNION {[1..n -> Alphabet] : n \in 0..(MaxLen - 1)}}
  \cup {[doc |-> d.doc, rest |-> d.doc] :
          d \in {d \in TagDocuments :
                   /\ d.before # <<>> /\ d.after # <<>>
                   /\ ~d.closing /\ Len(d.attrs) = 2}}

InitTokens ==
  \E d \in TokenizerInputs, config \in {DefaultConfig, Config(DefaultMaxDepth, AllowOnlyA)} :
    /\ tokenizer = NewParserTokenizer(config)
    /\ parser = NewStreamXmlParserWithConfig(config)
    /\ err = "nil"
    /\ chunk = <<>>
    /\ calllog = <<>>
    /\ tokenlog = <<>>
    /\ everFailed = FALSE
    /\ empties = 0
    /\ openedAt = 0
    /\ input = d
    /\ Sequential

\* tokenizer.Append of the next n characters; local[Caller].toks holds the
\* tokens collected so far, merged
TokenizerFeed(n) ==
  /\ n \in 1..Len(input.rest)
  /\ pc[Caller] = "idle"
  /\ tokenizer' = TokenizerAppend(tokenizer, SubSeq(input.rest, 1, n))
  /\ chunk' = SubSeq(input.rest, 1, n)
  /\ input' = [input EXCEPT !.rest = SubSeq(input.rest, n + 1, Len(input.rest))]
  /\ pc' = [pc EXCEPT ![Caller] = "Appended"]
  /\ UNCHANGED <<parser, err, calllog, tokenlog, everFailed, empties, openedAt,
                 mu, local>>

\* tokens := collectTokens(tokenizer), after one Append or after several
TokenizerCollect ==
  /\ pc[Caller] = "Appended"
  /\ tokenizer' = collectTokens(tokenizer, <<>>).t
  /\ local' = [local EXCEPT ![Caller].toks =
                 MergeTokens(collectTokens(tokenizer, <<>>).tokens, local[Caller].toks)]
  /\ pc' = [pc EXCEPT ![Caller] = "idle"]
  /\ UNCHANGED <<parser, err, chunk, calllog, tokenlog, everFailed, empties,
                 openedAt, input, mu>>

\* a further Append before the tokens are collected
TokenizerFeedMore(n) ==
  /\ n \in 1..Len(input.rest)
  /\ pc[Caller] = "Appended"
  /\ tokenizer' = TokenizerAppend(tokenizer, SubSeq(input.rest, 1, n))
  /\ chunk' = SubSeq(input.rest, 1, n)
  /\ input' = [input EXCEPT !.rest = SubSeq(input.rest, n + 1, Len(input.rest))]
  /\ UNCHANGED <<parser, err, calllog, tokenlog, everFailed, empties, openedAt,
                 mu, pc, local>>

NextTokens ==
  \/ \E n \in 1..Len(input.rest) : TokenizerFeed(n)
  \/ TokenizerCollect
  \/ \E n \in 1..Len(input.rest) : TokenizerFeedMore(n)

SpecTokens == InitTokens /\ [][NextTokens]_vars

(***************************************************************************)
(* Siblings, as in TestMultiRoundAppendMultipleNodes: text, an element,    *)
(* text, an element, text, fed in one Append or one character per Append.  *)
(***************************************************************************)
SiblingNames == {<<"p">>, <<"p", "q">>}
SiblingContents == {<<>>, <<"c">>, <<"c", " ", "d">>}
SiblingTexts == {<<>>, <<"T", "\n">>}

\* an element with text content, as written
ElementText(name, content) ==
  <<"<">> \o name \o <<">">> \o content \o <<"<", "/">> \o name \o <<">">>

Siblings(t1, n1, c1, t2, n2, c2, t3, whole) ==
  [texts |-> <<t1, t2, t3>>, names |-> <<n1, n2>>, contents |-> <<c1, c2>>,
   whole |-> whole,
   doc |-> t1 \o ElementText(n1, c1) \o t2 \o ElementText(n2, c2) \o t3,
   rest |-> t1 \o ElementText(n1, c1) \o t2 \o ElementText(n2, c2) \o t3]

SiblingDocuments ==
  {Siblings(t1, n1, c1, t2, n2, c2, t3, whole) :
     t1 \in SiblingTexts, n1 \in SiblingNames, c1 \in SiblingContents,
     t2 \in SiblingTexts, n2 \in SiblingNames, c2 \in SiblingContents,
     t3 \in SiblingTexts, whole \in BOOLEAN}

InitSiblings ==
  \E d \in SiblingDocuments :
    /\ tokenizer = NewParserTokenizer(DefaultConfig)
    /\ parser = NewStreamXmlParserWithConfig(DefaultConfig)
    /\ err = "nil"
    /\ chunk = <<>>
    /\ calllog = <<>>
    /\ tokenlog = <<>>
    /\ everFailed = FALSE
    /\ empties = 0
    /\ openedAt = 0
    /\ input = d
    /\ Sequential

\* the caller appends the whole document, or its next character
FeedSiblings ==
  /\ input.rest # <<>>
  /\ FeedChunk(IF input.whole THEN Len(input.rest) ELSE 1)

SpecSiblings == InitSiblings /\ [][FeedSiblings]_vars

(***************************************************************************)
(* Nested tags, as in TestMultiRoundAppendNestedTags: a top-level element  *)
(* whose content holds opening, closing and self-closing tags, cut into    *)
(* chunks at any places.                                                   *)
(***************************************************************************)
\* what the top-level element contains
NestedInners ==
  {
    <<"<", "q", ">", "y", "<", "/", "q", ">">>,
    <<"x", "<", "q", "/", ">", "z">>,
    <<"<", "p", ">", "<", "/", "p", ">">>,
    <<"<", "q", ">", "<", "r", "/", ">", "<", "/", "q", ">">>,
    <<"<", "q", " ", "a", "=", "b", ">", "y", "<", "/", "q", ">">> }

\* text before and after the top-level element
NestedTexts == {<<>>, <<"T">>}

Nested(before, inner, after) ==
  [before |-> before, open |-> <<"<", "p", ">">>, inner |-> inner,
   close |-> <<"<", "/", "p", ">">>, after |-> after,
   doc |-> before \o <<"<", "p", ">">> \o inner \o <<"<", "/", "p", ">">> \o after,
   rest |-> before \o <<"<", "p", ">">> \o inner \o <<"<", "/", "p", ">">> \o after]

NestedDocuments ==
  {Nested(b, i, a) : b \in NestedTexts, i \in NestedInners, a \in NestedTexts}

InitNested ==
  \E d \in NestedDocuments :
    /\ tokenizer = NewParserTokenizer(DefaultConfig)
    /\ parser = NewStreamXmlParserWithConfig(DefaultConfig)
    /\ err = "nil"
    /\ chunk = <<>>
    /\ calllog = <<>>
    /\ tokenlog = <<>>
    /\ everFailed = FALSE
    /\ empties = 0
    /\ openedAt = 0
    /\ input = d
    /\ Sequential

SpecNested == InitNested /\ [][NextSplit]_vars

(***************************************************************************)
(* Malformed documents, cut into chunks at any places: unterminated        *)
(* quotes, stray '<' and '>', the empty tags <>, </> and <//>, attribute   *)
(* names without values, duplicate attribute names.                        *)
(***************************************************************************)
MalformedTexts ==
  {
    <<"<", "a", " ", "b", "=", "\"", "c", ">", "d">>,
    <<"<", "a", " ", "b", "=", "'", "c", " ", "d", ">">>,
    <<"a", ">", "b", "<", "c">>,
    <<"<", ">", "x", "<", "/", ">">>,
    <<"<", "/", "/", ">">>,
    <<"<", "a", " ", "b", ">">>,
    <<"<", "a", " ", "b", " ", "c", "=", "d", ">">>,
    <<"<", "a", " ", "b", "=", "1", " ", "b", "=", "2", "/", ">">>,
    <<"<", "a", " ", "b", "=", " ", ">">>,
    <<"<", " ", "a", ">", "x">>,
    <<"<", "a", " ", "=", "b", ">">>,
    <<"<", "a", ">", "<", "b", " ", "c", "=", "\"", "d", ">", "<", "/", "a", ">">>,
    <<"<", "/", "a", " ", "b", "=", "\"", "c", "\"", ">">>,
    <<"<", "a", " ", "/", " ", "b", ">">>,
    <<"<", "a", "=", "b", " ", "a", "=", "b", ">">>,
    <<"<", "a", "\t", "b", "=", "c", " ", " ", "d", ">">>,
    <<"<", "a", " ", "b", "=", "\"", "c", "\"", "d", "=", "e", "/", ">">>,
    <<"<", "a", ">", "x", "<", "/", "b", ">", "y">>,
    <<"<", "a", ">", "<", "a", ">", "<", "/", "b", ">", "<", "/", "b", ">">> }

MalformedDocuments == {[doc |-> d, rest |-> d] : d \in MalformedTexts}

MalformedConfigs == {DefaultConfig, Config(DefaultMaxDepth, AllowOnlyA)}

InitMalformed ==
  \E config \in MalformedConfigs, d \in MalformedDocuments :
    /\ tokenizer = NewParserTokenizer(config)
    /\ parser = NewStreamXmlParserWithConfig(config)
    /\ err = "nil"
    /\ chunk = <<>>
    /\ calllog = <<>>
    /\ tokenlog = <<>>
    /\ everFailed = FALSE
    /\ empties = 0
    /\ openedAt = 0
    /\ input = d
    /\ Sequential

SpecMalformed == InitMalformed /\ [][NextSplit]_vars

(***************************************************************************)
(* What the claims compare a chunked run with: the same configuration fed  *)
(* the whole buffer in one Append.                                         *)
(***************************************************************************)
WholeParse ==
  AppendCall(NewParserTokenizer(parser.config),
             NewStreamXmlParserWithConfig(parser.config), tokenizer.buffer)

\* no Append of the run, nor the single Append of the whole, returned an error
NoAppendFailed == ~everFailed /\ WholeParse.err = "nil"

\* the run fed the buffer in at least two non-empty chunks
FedInChunks == chunk # <<>> /\ Len(chunk) < Len(tokenizer.buffer)

\* what a caller reads of an element
NodeData(node) ==
  [Name |-> node.Name, Attributes |-> node.Attributes, Content |-> node.Content,
   Partial |-> node.Partial]

(***************************************************************************)
(* C1: however the input was cut into chunks, GetText() after the last     *)
(* chunk is GetText() after one Append of the whole input (no Append       *)
(* having returned an error).                                              *)
(***************************************************************************)
C1_TextChunkInvariant ==
  NoAppendFailed => GetText(parser) = GetText(WholeParse.p)

\* text, an element, then text, the last chunk being a proper part of the input
C1_Witness ==
  /\ NoAppendFailed
  /\ FedInChunks
  /\ \E i, j, k \in 1..Len(parser.astNodes) :
       /\ i < j /\ j < k
       /\ parser.astNodes[i].Type = "Text"
       /\ parser.astNodes[j].Type = "Xml"
       /\ parser.astNodes[k].Type = "Text"

(***************************************************************************)
(* C2: however the input was cut into chunks, GetXmlNodes() after the last *)
(* chunk returns as many elements as after one Append of the whole input.  *)
(***************************************************************************)
C2_ElementCountChunkInvariant ==
  NoAppendFailed => Len(GetXmlNodes(parser)) = Len(GetXmlNodes(WholeParse.p))

(***************************************************************************)
(* C3: however the input was cut into chunks, each element after the last  *)
(* chunk has the Name, Attributes, Content and Partial flag of the         *)
(* corresponding element after one Append of the whole input.              *)
(***************************************************************************)
C3_ElementDataChunkInvariant ==
  NoAppendFailed =>
    LET got == GetXmlNodes(parser)
        want == GetXmlNodes(WholeParse.p)
    IN \A i \in 1..Len(got) :
         i <= Len(want) => NodeData(got[i]) = NodeData(want[i])

(***************************************************************************)
(* C4: fed one character per Append, a document text, element with         *)
(* attributes and text content, text never makes Append return an error;   *)
(* from the tag's '<' onward there is at least one element node; and at    *)
(* the end there is exactly one element node, not partial, with the tag's  *)
(* name, its attributes and the inner text as Content, while GetText() is  *)
(* the text before followed by the text after.                             *)
(***************************************************************************)
C4_PerCharacter ==
  LET nodes == GetXmlNodes(parser)
  IN /\ err = "nil"
     /\ Len(tokenizer.buffer) > Len(input.before) => Len(nodes) >= 1
     /\ input.rest = <<>> =>
          /\ Len(nodes) = 1
          /\ NodeData(nodes[1]) =
               [Name |-> input.name,
                Attributes |-> AttrMap(input.attrs, Len(input.attrs)),
                Content |-> input.content,
                Partial |-> FALSE]
          /\ GetText(parser) = input.before \o input.after

\* the whole of a document with text on both sides, two attributes and
\* content has been fed
C4_Witness ==
  /\ input.rest = <<>>
  /\ tokenizer.buffer = input.doc
  /\ input.before # <<>> /\ input.after # <<>> /\ input.content # <<>>
  /\ Len(input.attrs) = 2
  /\ Len(GetXmlNodes(parser)) = 1

\* the tree indices that hold an element
XmlIndices(p) == {i \in 1..Len(p.astNodes) : p.astNodes[i].Type = "Xml"}

\* the element the parser is forming or has open, if any
Tracked(p) == p.currentPartialNode # NilNode /\ p.partialNodeIndex >= 0

(***************************************************************************)
(* C5: over every Append, each element of the tree stays the same XmlNode  *)
(* instance at the same tree index; the element that is forming or open is *)
(* the one at its recorded index, and finishing its opening tag or closing *)
(* it changes that instance in place; no instance and no input position    *)
(* appears twice in the tree.                                              *)
(***************************************************************************)
C5_Step ==
  LET old == parser.astNodes
      new == parser'.astNodes
      T == parser.currentPartialNode
      log == calllog'
  IN /\ Len(old) <= Len(new)
     /\ \A i \in 1..Len(old) : new[i] = old[i]
     /\ \A i, j \in XmlIndices(parser') :
          i # j => /\ new[i].XmlNode # new[j].XmlNode
                   /\ new[i].Position # new[j].Position
     /\ Tracked(parser) =>
          /\ parser.partialNodeIndex + 1 \in XmlIndices(parser)
          /\ old[parser.partialNodeIndex + 1].XmlNode = T
          /\ (/\ parser.depth = 0
              /\ log # <<>>
              /\ log[1].kind = "opening") =>
                 /\ parser'.heap[T].Name = log[1].name
                 /\ parser'.heap[T].StartPos = parser.heap[T].StartPos
          /\ (/\ parser.depth > 0
              /\ \E k \in 1..Len(log) : log[k].kind = "closing" /\ log[k].depth = 0) =>
                 ~parser'.heap[T].Partial

C5_PartialThenCompleteIdentity == [][C5_Step]_vars

\* an element that was in the tree as partial has just been closed by a
\* closing tag whose '<' came in an earlier Append, and is the only element
C5_Witness ==
  /\ ~everFailed
  /\ chunk # <<>>
  /\ Len(GetXmlNodes(parser)) = 1
  /\ LET node == GetXmlNodes(parser)[1]
     IN /\ ~node.Partial
        /\ node.EndPos < Len(tokenizer.buffer) - Len(chunk)
  /\ \E k \in 1..Len(calllog) : calllog[k].kind = "closing" /\ calllog[k].depth = 0

\* the unterminated tag at the end of the input: from its '<' to the end
TagFragment == Slice(tokenizer.buffer, tokenizer.tagStartPos, Len(tokenizer.buffer))

\* the first whitespace-delimited word after the first character of s
FirstWord(s) ==
  LET from == SkipSpace(s, 1)
  IN Slice(s, from, ScanToSpace(s, from))

\* the last Append left a depth-0 tag unterminated
TagForming ==
  /\ ~everFailed
  /\ chunk # <<>>
  /\ tokenizer.inTag
  /\ parser.depth = 0

(***************************************************************************)
(* C6: right after an Append that leaves a depth-0 tag unterminated, the   *)
(* elements include a partial node whose Name is the first                 *)
(* whitespace-delimited word after the '<' of the fragment received so     *)
(* far, the empty name included.                                           *)
(***************************************************************************)
C6_EarlyVisibility ==
  TagForming =>
    \E i \in 1..Len(GetXmlNodes(parser)) :
      /\ GetXmlNodes(parser)[i].Partial
      /\ GetXmlNodes(parser)[i].Name = FirstWord(TagFragment)

\* the last Append carried a chunk without '<' and a top-level element is open
TextChunkInOpenElement ==
  /\ ~everFailed
  /\ chunk # <<>>
  /\ \A i \in 1..Len(chunk) : chunk[i] # "<"
  /\ parser.xmlStack # <<>>

\* the open top-level element
OpenElement == parser.heap[parser.xmlStack[Len(parser.xmlStack)]]

ReceivedSinceOpen == Slice(tokenizer.buffer, openedAt, Len(tokenizer.buffer))

\* a top-level element is open and no '<' has come since its opening tag
OpenWithTextOnly ==
  /\ parser.xmlStack # <<>>
  /\ \A i \in 1..Len(ReceivedSinceOpen) : ReceivedSinceOpen[i] # "<"

ClosedTextElement ==
  /\ ~everFailed
  /\ calllog # <<>>
  /\ LET ev == calllog[Len(calllog)]
     IN /\ ev.kind = "closing"
        /\ ev.before = 1
        /\ ev.depth = 0
        /\ openedAt <= ev.pos
        /\ \A i \in (openedAt + 1)..ev.pos : tokenizer.buffer[i] # "<"

\* the text between the opening tag and the closing tag just completed
InnerText == Slice(tokenizer.buffer, openedAt, calllog[Len(calllog)].pos)

\* the elements the closing tag just completed has closed
JustClosed ==
  {i \in 1..Len(GetXmlNodes(parser)) :
     /\ ~GetXmlNodes(parser)[i].Partial
     /\ GetXmlNodes(parser)[i].EndPos = calllog[Len(calllog)].pos}

(***************************************************************************)
(* C8: once the closing tag of a top-level element with text content has   *)
(* completed, however it was split across chunks, the element's Content is *)
(* exactly the inner text, without the closing tag's '<'.                  *)
(***************************************************************************)
C8_ClosingLookAhead ==
  ClosedTextElement =>
    \A i \in JustClosed : GetXmlNodes(parser)[i].Content = InnerText

\* the input so far has no unterminated tag and no tag naming an allowed element
OnlyDisallowedTags ==
  /\ ~everFailed
  /\ ~parser.config.AllowedElements.isNil
  /\ ~tokenizer.inTag
  /\ \A i \in 1..Len(tokenizer.buffer) :
       \A name \in parser.config.AllowedElements.names :
         tokenizer.buffer[i] # name[1]

(***************************************************************************)
(* C9: with an allow-list, once elements whose names are not on the list   *)
(* have been fully appended, in one chunk or several, there is no node for *)
(* them and their tags and inner text are verbatim in GetText().           *)
(***************************************************************************)
C9_AllowListFiltering ==
  OnlyDisallowedTags =>
    /\ GetXmlNodes(parser) = <<>>
    /\ GetText(parser) = tokenizer.buffer

\* the completed opening tags of the last Append that raised the depth
\* above the limit
DepthRaisedAboveLimit ==
  {k \in 1..Len(calllog) :
     /\ calllog[k].kind = "opening"
     /\ calllog[k].depth = calllog[k].before + 1
     /\ calllog[k].depth > parser.config.MaxDepth}

(***************************************************************************)
(* C10: Append returns ErrMaxDepthExceeded exactly when a completed        *)
(* opening tag of an allowed element processed in that call raised the     *)
(* depth above MaxDepth, and it stops at that tag; with MaxDepth = 1 an    *)
(* opening tag inside an open element does so; self-closing tags, closing  *)
(* tags and tags not on the allow-list never do.                           *)
(***************************************************************************)
C10_DepthLimit ==
  /\ err \in {"nil", "ErrMaxDepthExceeded"}
  /\ err = "ErrMaxDepthExceeded" <=> DepthRaisedAboveLimit # {}
  /\ DepthRaisedAboveLimit \subseteq {Len(calllog)}
  /\ \A k \in 1..Len(calllog) :
       /\ Allowed(tokenizer, calllog[k].name)
       /\ calllog[k].kind # "opening" => calllog[k].depth <= calllog[k].before
       /\ (/\ parser.config.MaxDepth = 1
           /\ calllog[k].kind = "opening"
           /\ calllog[k].before >= 1) => k \in DepthRaisedAboveLimit

\* with MaxDepth = 1, an Append after the first has completed an opening tag
\* inside the open element and returned the error
C10_Witness ==
  /\ parser.config.MaxDepth = 1
  /\ FedInChunks
  /\ err = "ErrMaxDepthExceeded"
  /\ calllog[Len(calllog)].kind = "opening"
  /\ calllog[Len(calllog)].before = 1

\* the tag whose processing made the Append just returned fail
FailedTag == calllog'[Len(calllog')]

\* the offset just past the '>' of that tag
FailedTagEnd == ScanTo(tokenizer'.buffer, FailedTag.pos, {">"}) + 1

\* the parser the call would have ended with had the buffer stopped at upto
RunTo(upto) ==
  processNewTokens([t |-> TokenizerAppend(
                            [tokenizer EXCEPT !.buffer = Slice(tokenizer'.buffer, 0, upto)],
                            <<>>),
                    p |-> parser, err |-> "nil", log |-> <<>>, toks |-> <<>>]).p

\* the parser as the tokens before the failing tag left it: the parser
\* before the call when the tokenizer was already inside that tag, else the
\* parser after the input before the tag's '<'
BeforeFailedTag ==
  IF tokenizer.inTag /\ tokenizer.tagStartPos = FailedTag.pos
  THEN parser
  ELSE RunTo(FailedTag.pos)

\* the element that was open when the failing tag came
OpenBeforeFailedTag == BeforeFailedTag.xmlStack[Len(BeforeFailedTag.xmlStack)]

(***************************************************************************)
(* C11: when an Append returns ErrMaxDepthExceeded, the failing tag is the *)
(* last thing it processed: the tokenizer stands just past that tag's '>'  *)
(* with nothing pending, and the parser is what the chunk cut off after    *)
(* that '>' would have left; and nothing is rolled back: the tree and      *)
(* text the earlier tokens built are there, the open element's Content has *)
(* grown by the failing tag, and the depth stays raised.                   *)
(***************************************************************************)
C11_Step ==
  err' = "ErrMaxDepthExceeded" =>
    /\ FailedTag.err = "ErrMaxDepthExceeded"
    /\ \A k \in 1..(Len(calllog') - 1) : calllog'[k].err = "nil"
    /\ tokenizer'.position = FailedTagEnd
    /\ tokenizer'.pendingTokens = <<>>
    /\ parser' = RunTo(FailedTagEnd)
    /\ parser'.astNodes = BeforeFailedTag.astNodes
    /\ GetText(parser') = GetText(BeforeFailedTag)
    /\ parser'.depth = BeforeFailedTag.depth + 1
    /\ BeforeFailedTag.xmlStack # <<>>
    /\ \A n \in 1..Len(BeforeFailedTag.heap) :
         parser'.heap[n] =
           IF n = OpenBeforeFailedTag
           THEN [BeforeFailedTag.heap[n] EXCEPT
                   !.Content = @ \o reconstructTag(parser', tokenizer'.buffer)]
           ELSE BeforeFailedTag.heap[n]

C11_NoRollback == [][C11_Step]_vars

\* the failing Append's chunk held text before the failing tag and more
\* after it: the text is in the open element's Content, the rest unread
C11_Witness ==
  /\ err = "ErrMaxDepthExceeded"
  /\ tokenizer.position < Len(tokenizer.buffer)
  /\ calllog[Len(calllog)].pos > Len(tokenizer.buffer) - Len(chunk)
  /\ Len(GetXmlNodes(parser)) = 1
  /\ Len(GetXmlNodes(parser)[1].Content) > tokenizer.position - calllog[Len(calllog)].pos

\* a token lies inside the buffer, so that buffer[Start:End] is in range
InBuffer(token) ==
  /\ 0 <= token.Start
  /\ token.Start <= token.End
  /\ token.End <= Len(tokenizer.buffer)

\* the tokenizer's offsets and the parser's indices and pointers are in range
IndicesInRange ==
  /\ tokenizer.position \in 0..Len(tokenizer.buffer)
  /\ tokenizer.tagStartPos \in 0..tokenizer.position
  /\ tokenizer.textStartPos \in 0..tokenizer.position
  /\ tokenizer.pendingIndex \in 0..Len(tokenizer.pendingTokens)
  /\ parser.partialNodeIndex \in -1..(Len(parser.astNodes) - 1)
  /\ parser.currentPartialNode \in 0..Len(parser.heap)
  /\ parser.depth >= 0
  /\ \A i \in 1..Len(parser.xmlStack) : parser.xmlStack[i] \in 1..Len(parser.heap)
  /\ \A i \in 1..Len(parser.astNodes) :
       parser.astNodes[i].XmlNode \in 0..Len(parser.heap)

(***************************************************************************)
(* C12: on malformed input, however it is cut into chunks, every Append    *)
(* returns nil, every token NextToken hands to the parser lies inside the  *)
(* buffer with Start <= End, and every offset, index and node pointer the  *)
(* tokenizer and the parser keep is in range.                              *)
(***************************************************************************)
C12_NeverFails ==
  /\ err = "nil"
  /\ \A i \in 1..Len(tokenlog) : InBuffer(tokenlog[i])
  /\ \A i \in 1..Len(parser.tagTokens) : InBuffer(parser.tagTokens[i])
  /\ \A i \in 1..Len(tokenizer.pendingTokens) : InBuffer(tokenizer.pendingTokens[i])
  /\ IndicesInRange

\* a tag with an unterminated quote has been fed whole, in several chunks,
\* the last completing the tag, and its element has the attribute
C12_Witness ==
  /\ input.rest = <<>>
  /\ FedInChunks
  /\ \E i \in 1..Len(tokenlog) : tokenlog[i].Type = "AttributeValue"
  /\ \E i \in 1..Len(input.doc) :
       /\ input.doc[i] \in {"\"", "'"}
       /\ \A j \in 1..Len(input.doc) : input.doc[j] = input.doc[i] => j = i
  /\ Len(GetXmlNodes(parser)) = 1
  /\ DOMAIN GetXmlNodes(parser)[1].Attributes # {}

TopOpenEnd == Len(input.before) + Len(input.open)
TopCloseEnd == TopOpenEnd + Len(input.inner) + Len(input.close)

(***************************************************************************)
(* C14: however a top-level element holding nested opening, closing and    *)
(* self-closing tags is cut into chunks, from the Append that completes    *)
(* its opening tag onward GetXmlNodes() holds exactly one node, the        *)
(* top-level element's, and that node is Partial exactly until the Append  *)
(* that completes the element's own closing tag.                           *)
(***************************************************************************)
C14_NestedStayInParent ==
  Len(tokenizer.buffer) >= TopOpenEnd =>
    /\ err = "nil"
    /\ Len(GetXmlNodes(parser)) = 1
    /\ GetXmlNodes(parser)[1].Name = <<"p">>
    /\ GetXmlNodes(parser)[1].Partial <=> Len(tokenizer.buffer) < TopCloseEnd

\* the last Append completed a nested closing tag that matched a nested
\* opening tag, the '<' of which had come in an earlier Append, and the
\* top-level element is still the one partial node
C14_Witness ==
  /\ calllog # <<>>
  /\ calllog[Len(calllog)].kind = "closing"
  /\ calllog[Len(calllog)].before = 2
  /\ calllog[Len(calllog)].depth = 1
  /\ calllog[Len(calllog)].pos < Len(tokenizer.buffer) - Len(chunk)
  /\ Len(tokenizer.buffer) < TopCloseEnd
  /\ Len(GetXmlNodes(parser)) = 1
  /\ GetXmlNodes(parser)[1].Partial

\* the threads inside Append, between mu.Lock() and the return
Appending == {th \in Threads : pc[th] = "Append"}

\* the threads inside a query, between mu.RLock() and the return
Querying == {th \in Threads : pc[th] = "Query"}

(***************************************************************************)
(* C15: with Append and the queries called from several threads, at most   *)
(* one thread is inside Append, and while a thread is inside a query no    *)
(* thread is inside Append: the tokenizer and the tree a query walks are   *)
(* those a returned Append left.                                           *)
(***************************************************************************)
C15_AtomicVisibility ==
  /\ Cardinality(Appending) <= 1
  /\ Querying # {} =>
       /\ Appending = {}
       /\ Committed = [t |-> tokenizer, p |-> parser]
  /\ Appending # {} <=> mu.writer # 0
  /\ Querying = mu.readers

\* one thread is inside Append with tokens processed and more to come, while
\* the other holds what its query returned before that Append began
C15_Witness ==
  \E th, o \in Threads :
    /\ pc[th] = "Append"
    /\ local[th].toks # <<>>
    /\ NextToken(tokenizer).tok # NoToken
    /\ parser # Committed.p
    /\ pc[o] = "Caller"
    /\ local[o].text = GetText(Committed.p)

(***************************************************************************)
(* C16: a node read through a pointer that GetXmlNode, GetXmlNodes or      *)
(* GetAST returned, without the lock and while Appends go on, is always    *)
(* the node as an Append that returned left it, never a node in the middle *)
(* of an Append's updates.                                                 *)
(***************************************************************************)
C16_SafeSnapshots ==
  \A th \in Threads : local[th].saw = local[th].was

\* the step is the caller changing what GetAST returned to it, or writing
\* through it
CallerWrites == pc[Caller] = "Tree" /\ pc'[Caller] = "Wrote"

(***************************************************************************)
(* C17: whatever the caller does to the value GetAST returned - replacing  *)
(* or reordering its entries, writing a field of an element node reached   *)
(* through it - the parser's tree, elements and text, and the state later  *)
(* Appends start from, are unchanged.                                      *)
(***************************************************************************)
C17_Step ==
  CallerWrites =>
    /\ GetText(parser') = GetText(parser)
    /\ GetXmlNodes(parser') = GetXmlNodes(parser)
    /\ parser'.astNodes = parser.astNodes
    /\ parser' = parser
    /\ tokenizer' = tokenizer

C17_DefensiveCopy == [][C17_Step]_vars

(***************************************************************************)
(* C18: the parser works with the configuration it was given exactly when  *)
(* MaxDepth >= 1, MaxBufferSize >= 1024 and BufferCleanupThreshold >= 0,   *)
(* which is when Validate returns nil; otherwise Validate returns          *)
(* ErrInvalidConfiguration and the parser works with the whole default     *)
(* configuration, MaxDepth 100 and every element allowed, whatever the     *)
(* supplied fields were - a valid allow-list included.                     *)
(***************************************************************************)
C18_ConfigFallback ==
  LET c == input.config
      valid == c.MaxDepth >= 1 /\ c.MaxBufferSize >= 1024
               /\ c.BufferCleanupThreshold >= 0
  IN /\ valid <=> Validate(c) = "nil"
     /\ ~valid <=> Validate(c) = "ErrInvalidConfiguration"
     /\ valid => /\ parser.config = c
                 /\ tokenizer.allowedElements = c.AllowedElements
     /\ ~valid => /\ parser.config = DefaultConfig
                  /\ parser.config.MaxDepth = 100
                  /\ tokenizer.allowedElements = NilElements

\* an invalid configuration with a valid allow-list was supplied, and an
\* element that list does not name has been parsed as an element
C18_Witness ==
  /\ input.config.MaxBufferSize < 1024
  /\ input.config.MaxDepth = 1
  /\ input.config.AllowedElements = AllowOnlyA
  /\ parser.depth = 1
  /\ \E i \in 1..Len(parser.heap) : parser.heap[i].Name = <<"a", "a">>

\* the offsets of the scripted tag's '<' and of the character after its '>'
TagStart == Len(input.before)
TagEnd == Len(input.before) + Len(input.tag)

\* the last Append brought the '>' of the scripted tag
TagCompleted ==
  /\ Len(tokenizer.buffer) >= TagEnd
  /\ Len(tokenizer.buffer) - Len(chunk) < TagEnd

\* the tokens of the last Append that lie in or across the scripted tag
OverTag(token) == token.Start < TagEnd /\ token.End > TagStart
TagTokens == SelectSeq(tokenlog, OverTag)

Structural ==
  {"OpenBracket", "Slash", "ElementName", "AttributeName", "Equals",
   "AttributeValue", "CloseBracket"}

TagAllowed ==
  tokenizer.allowedElements.isNil \/ input.name \in tokenizer.allowedElements.names

(***************************************************************************)
(* C19: with a nil allow-list the completed tag comes out as structural    *)
(* tokens; with a list, empty or not, that does not name the tag's         *)
(* element, the tag - opening, closing or self-closing - comes out as one  *)
(* complete Text token from its '<' to its '>' and no structural token.    *)
(***************************************************************************)
C19_AllowList ==
  TagCompleted =>
    /\ tokenizer.allowedElements.isNil =>
         /\ TagTokens # <<>>
         /\ \A i \in 1..Len(TagTokens) : TagTokens[i].Type \in Structural
         /\ \E i \in 1..Len(TagTokens) :
              /\ TagTokens[i].Type = "ElementName"
              /\ getValue(tokenizer.buffer, TagTokens[i]) = input.name
    /\ ~TagAllowed => TagTokens = <<Token("Text", TagStart, TagEnd, TRUE)>>

\* a self-closing tag with attributes, under the list that allows nothing,
\* has come out as one Text token between two other texts
C19_Witness ==
  /\ TagCompleted
  /\ tokenizer.allowedElements = AllowNothing
  /\ input.selfClosing /\ Len(input.attrs) = 2
  /\ input.before # <<>> /\ input.after # <<>>
  /\ Len(chunk) = 1
  /\ TagTokens = <<Token("Text", TagStart, TagEnd, TRUE)>>

\* a token as its type and the text it spans
Described(type, value) == [Type |-> type, value |-> value]

AttributeTriple(attr) ==
  <<Described("AttributeName", attr.k), Described("Equals", <<"=">>),
    Described("AttributeValue", attr.v)>>

\* a triple for each well-formed attribute of the list, in source order
RECURSIVE WellFormedTriples(_)
WellFormedTriples(attrs) ==
  IF attrs = <<>> THEN <<>>
  ELSE (IF attrs[1].form = "full" THEN AttributeTriple(attrs[1]) ELSE <<>>)
       \o WellFormedTriples(Tail(attrs))

\* a triple for each well-formed attribute before the first malformed
\* fragment; of that fragment its name if anything follows it, its name and
\* '=' if it has the '='; nothing of what follows it
RECURSIVE ScannedAttributes(_)
ScannedAttributes(attrs) ==
  IF attrs = <<>> THEN <<>>
  ELSE IF attrs[1].form = "full"
  THEN AttributeTriple(attrs[1]) \o ScannedAttributes(Tail(attrs))
  ELSE IF attrs[1].form = "equals"
  THEN <<Described("AttributeName", attrs[1].k), Described("Equals", <<"=">>)>>
  ELSE IF Tail(attrs) # <<>> THEN <<Described("AttributeName", attrs[1].k)>>
  ELSE <<>>

\* the scripted tag as tokens, with attributeTokens for its attribute list
TagParts(attributeTokens) ==
  <<Described("OpenBracket", <<"<">>)>>
  \o (IF input.closing THEN <<Described("Slash", <<"/">>)>> ELSE <<>>)
  \o <<Described("ElementName", input.name)>>
  \o attributeTokens
  \o (IF input.selfClosing THEN <<Described("Slash", <<"/">>)>> ELSE <<>>)
  \o <<Described("CloseBracket", <<">">>)>>

\* the tokens over the scripted tag, each as its type and the text it spans
TagTokensDescribed ==
  [i \in 1..Len(TagTokens) |->
     Described(TagTokens[i].Type, getValue(tokenizer.buffer, TagTokens[i]))]

AllWellFormed == \A i \in 1..Len(input.attrs) : input.attrs[i].form = "full"

\* 3 tokens for an opening tag, 4 for a closing or a self-closing one, 9 with
\* two attributes
TagTokenCount ==
  3 + 3 * Len(input.attrs) + (IF input.closing THEN 1 ELSE 0)
    + (IF input.selfClosing THEN 1 ELSE 0)

(***************************************************************************)
(* C20 as stated: the tokens of a completed allowed tag are, in this       *)
(* order, OpenBracket, Slash if it is a closing tag, one ElementName, then *)
(* AttributeName, Equals, AttributeValue for each well-formed attribute in *)
(* source order, Slash if it is self-closing, CloseBracket, all complete.  *)
(***************************************************************************)
C20_EveryWellFormedAttribute ==
  (TagCompleted /\ TagAllowed) =>
    /\ TagTokensDescribed = TagParts(WellFormedTriples(input.attrs))
    /\ \A i \in 1..Len(TagTokens) : TagTokens[i].Complete

(***************************************************************************)
(* C20: the tokens of a completed allowed tag are, in this order,          *)
(* OpenBracket, Slash if it is a closing tag, one ElementName, then        *)
(* AttributeName, Equals, AttributeValue for each well-formed attribute in *)
(* source order up to the first malformed fragment - of which only the     *)
(* name, when something follows it, or the name and '=' become tokens, and *)
(* after which no attribute does - then Slash if it is self-closing, and   *)
(* CloseBracket; 3 tokens for an opening tag, 4 for a closing or a         *)
(* self-closing one, 9 with two attributes; every token is complete.       *)
(***************************************************************************)
C20_TagTokenSequence ==
  (TagCompleted /\ TagAllowed) =>
    /\ TagTokensDescribed = TagParts(ScannedAttributes(input.attrs))
    /\ \A i \in 1..Len(TagTokens) : TagTokens[i].Complete
    /\ AllWellFormed => Len(TagTokens) = TagTokenCount

\* a tag with a lone name before a well-formed attribute, allowed by name and
\* cut after every character, has come out without that attribute
C20_Witness ==
  /\ TagCompleted /\ TagAllowed
  /\ ~tokenizer.allowedElements.isNil
  /\ input.attrs = <<AttrLone, AttrDouble>>
  /\ Len(chunk) = 1
  /\ Len(TagTokens) = 4 + (IF input.closing THEN 1 ELSE 0)
                        + (IF input.selfClosing THEN 1 ELSE 0)

\* the texts the tokens of one type over the scripted tag span, in order
ValuesOfType(type) ==
  LET HasType(token) == token.Type = type
      toks == SelectSeq(TagTokens, HasType)
  IN [i \in 1..Len(toks) |-> getValue(tokenizer.buffer, toks[i])]

(***************************************************************************)
(* C21: for a completed allowed tag, with any white space after '<',       *)
(* around '=' and between attributes, the span of the ElementName token    *)
(* resolves to the element name (not empty, without white space), the      *)
(* spans of the AttributeName tokens to the attribute names and those of   *)
(* the AttributeValue tokens to the values without their quotes.           *)
(***************************************************************************)
C21_SpansResolve ==
  TagCompleted =>
    /\ ValuesOfType("ElementName") = <<input.name>>
    /\ ValuesOfType("AttributeName") = [i \in 1..Len(input.attrs) |-> input.attrs[i].k]
    /\ ValuesOfType("AttributeValue") = [i \in 1..Len(input.attrs) |-> input.attrs[i].v]

\* the offsets of the '<' after which the buffer holds no '>'
OpenBrackets(buffer) ==
  {i \in 0..(Len(buffer) - 1) :
     /\ buffer[i + 1] = "<"
     /\ \A j \in (i + 1)..(Len(buffer) - 1) : buffer[j + 1] # ">"}

\* the buffer ends inside an unterminated tag
EndsInTag(buffer) == OpenBrackets(buffer) # {}

\* the offset of that tag's '<': the first '<' after the last '>'
UnterminatedStart(buffer) ==
  CHOOSE i \in OpenBrackets(buffer) : \A j \in OpenBrackets(buffer) : i <= j

IsIncomplete(token) == token.Type = "Incomplete"

(***************************************************************************)
(* C22: when the buffer ends inside an unterminated tag, the NextToken     *)
(* calls that follow an Append return exactly one Incomplete token, not    *)
(* complete, spanning from the tag's '<' to the end of the buffer, as the  *)
(* last token, and every further call returns nil and changes nothing.     *)
(***************************************************************************)
C22_SingleIncomplete ==
  (calllog # <<>> \/ chunk # <<>> \/ empties > 0) /\ err = "nil"
     /\ EndsInTag(tokenizer.buffer) =>
    /\ SelectSeq(tokenlog, IsIncomplete)
         = <<Token("Incomplete", UnterminatedStart(tokenizer.buffer),
                   Len(tokenizer.buffer), FALSE)>>
    /\ IsIncomplete(tokenlog[Len(tokenlog)])
    /\ NextToken(tokenizer).tok = NoToken
    /\ NextToken(tokenizer).t = tokenizer

\* an Append has extended a tag that was already unterminated, after text and
\* a completed tag, and the one Incomplete token spans the longer fragment
C22_Witness ==
  /\ err = "nil"
  /\ tokenizer.buffer = <<"a", ">", "<", "<", "a">>
  /\ chunk = <<"a">>
  /\ tokenlog = <<Token("Incomplete", 2, 5, FALSE)>>

\* the offsets just past the '>' that end a tag: the nearest bracket before
\* such a '>' is a '<'
ClosedTagEnds(buffer) ==
  {j + 1 : j \in {j \in 0..(Len(buffer) - 1) :
     /\ buffer[j + 1] = ">"
     /\ \E i \in 0..(j - 1) :
          /\ buffer[i + 1] = "<"
          /\ \A k \in (i + 1)..(j - 1) : buffer[k + 1] # ">"}}

\* the offset just past the last completed tag, 0 when there is none
LastTagEnd(buffer) ==
  IF ClosedTagEnds(buffer) = {} THEN 0
  ELSE CHOOSE e \in ClosedTagEnds(buffer) : \A f \in ClosedTagEnds(buffer) : f <= e

Max(a, b) == IF a >= b THEN a ELSE b

\* where the text not yet reported begins, for a buffer that was `before`
\* long when the last Append was called and does not end inside a tag
PendingStart(buffer, before) == Max(LastTagEnd(buffer), before)

IsText(token) == token.Type = "Text"

\* C23 for one Append
C23_Step ==
  ~everFailed' =>
    /\ (~EndsInTag(tokenizer'.buffer)
        /\ PendingStart(tokenizer'.buffer, Len(tokenizer.buffer)) < Len(tokenizer'.buffer)) =>
         /\ tokenlog' # <<>>
         /\ tokenlog'[Len(tokenlog')]
              = Token("Text", PendingStart(tokenizer'.buffer, Len(tokenizer.buffer)),
                      Len(tokenizer'.buffer), TRUE)
         /\ NextToken(tokenizer').tok = NoToken
    /\ ~EndsInTag(tokenizer.buffer) =>
         \A i \in 1..Len(tokenlog') :
           IsText(tokenlog'[i]) => tokenlog'[i].Start >= Len(tokenizer.buffer)

C24_EndTextIncomplete ==
  (chunk # <<>> /\ tokenizer.buffer = chunk
   /\ \A i \in 1..Len(chunk) : chunk[i] # "<") =>
    /\ tokenlog # <<>>
    /\ tokenlog[1] = Token("Text", 0, Len(chunk), FALSE)

\* the tokens of one Append of the whole buffer to a new tokenizer with the
\* same allow-list, collected and merged
WholeTokens ==
  MergeTokens(
    collectTokens(
      TokenizerAppend(SetAllowedElements(NewStreamXmlTokenizer,
                                         tokenizer.allowedElements),
                      tokenizer.buffer), <<>>).tokens, <<>>)

(***************************************************************************)
(* C25: however the input is cut into Appends, the tokens collected after  *)
(* the Appends, without the Incomplete ones and with adjacent Text tokens  *)
(* merged, are those of one Append of the whole input: same types, same    *)
(* spans, same order.                                                      *)
(***************************************************************************)
C25_TokenizerChunkInvariant ==
  pc[Caller] = "idle" => local[Caller].toks = WholeTokens

\* a tag with two attributes has arrived one character at a time and has
\* been collected as its nine tokens between two texts
C25_Witness ==
  /\ pc[Caller] = "idle"
  /\ input.rest = <<>>
  /\ Len(input.doc) > 12
  /\ Len(chunk) = 1
  /\ Len(local[Caller].toks) = 11
  /\ local[Caller].toks[11] = Token("Text", Len(input.doc) - 1, Len(input.doc), TRUE)

(***************************************************************************)
(* C26: in every reachable state, the states after a failed Append and     *)
(* after the Appends that follow it included, the nesting depth of the     *)
(* parser is at most the configured MaxDepth.                              *)
(***************************************************************************)
C26_DepthBound == parser.depth <= parser.config.MaxDepth

\* the element nodes that the step has made non-partial
MadeFinal ==
  {i \in 1..Len(parser'.heap) :
     /\ ~parser'.heap[i].Partial
     /\ i <= Len(parser.heap) => parser.heap[i].Partial}

\* C27 for one Append
C27_Step ==
  \A i \in MadeFinal :
    \E k \in 1..Len(calllog') :
      \/ /\ calllog'[k].kind = "closing"
         /\ calllog'[k].name = parser'.heap[i].Name
         /\ calllog'[k].before = 1
         /\ calllog'[k].depth = 0
      \/ /\ calllog'[k].kind = "selfClosing"
         /\ calllog'[k].pos = parser'.heap[i].StartPos

(***************************************************************************)
(* C27: an open top-level element becomes non-partial only when a closing  *)
(* tag with the element's own name is completed at the element's own       *)
(* nesting level, or when its own tag is self-closing; a closing tag with  *)
(* another name never finalizes it.                                        *)
(***************************************************************************)
C27_MatchingEndTag == [][C27_Step]_vars

IsPrefix(a, b) == Len(a) <= Len(b) /\ SubSeq(b, 1, Len(a)) = a

\* the elements that are open before and after the step
StillOpen ==
  {i \in 1..Len(parser.heap) : parser.heap[i].Partial /\ parser'.heap[i].Partial}

\* the buffer ends in the beginning of a closing tag, "</" and what follows
EndsInClosingFragment(buffer) ==
  /\ EndsInTag(buffer)
  /\ UnterminatedStart(buffer) + 1 < Len(buffer)
  /\ buffer[UnterminatedStart(buffer) + 2] = "/"

(***************************************************************************)
(* C28 as stated: for every open element and every Append before it        *)
(* closes, the element's Content before the Append is a prefix of its      *)
(* Content after the Append.                                               *)
(***************************************************************************)
C28_ContentOnlyExtended ==
  [][\A i \in StillOpen :
       IsPrefix(parser.heap[i].Content, parser'.heap[i].Content)]_vars

\* C28 for one Append: the content is extended, or it ended in a '<' and has
\* lost just that '<' while the buffer ends in an unfinished closing tag
C28_Step ==
  \A i \in StillOpen :
    \/ IsPrefix(parser.heap[i].Content, parser'.heap[i].Content)
    \/ /\ HasSuffix(parser.heap[i].Content, <<"<">>)
       /\ parser'.heap[i].Content
            = Slice(parser.heap[i].Content, 0, Len(parser.heap[i].Content) - 1)
       /\ EndsInClosingFragment(tokenizer'.buffer)

(***************************************************************************)
(* C28: for every open element and every Append before it closes, the      *)
(* element's Content before the Append is a prefix of its Content after    *)
(* the Append, except that the Append which shows a trailing '<' of the    *)
(* Content to be the start of a closing tag removes that one '<'.          *)
(***************************************************************************)
C28_ContentGrows == [][C28_Step]_vars

\* the '<' that ended the content of an open element has been taken back:
\* the Append of '/' has made it the start of a closing tag
C28_Witness ==
  /\ tokenizer.buffer = <<"<", ">", "a", "<", "/">>
  /\ chunk = <<"/">>
  /\ Len(parser.heap) = 1
  /\ parser.heap[1].Partial
  /\ parser.heap[1].Content = <<"a">>

\* the indices of the tree that hold element i
TreeIndices(p, i) ==
  {j \in 1..Len(p.astNodes) : p.astNodes[j].Type = "Xml" /\ p.astNodes[j].XmlNode = i}

\* C29 for one Append: no element turns partial again, and a completed
\* element keeps every field and its place in the tree
C29_Step ==
  \A i \in 1..Len(parser.heap) :
    ~parser.heap[i].Partial =>
      /\ i <= Len(parser'.heap)
      /\ parser'.heap[i] = parser.heap[i]
      /\ TreeIndices(parser', i) = TreeIndices(parser, i)

(***************************************************************************)
(* C29: the Partial flag of an element changes at most once, from true to  *)
(* false and never back, and once it is false no later Append changes the  *)
(* element's Name, Attributes, Content, StartPos or EndPos, nor its index  *)
(* in the tree.                                                            *)
(***************************************************************************)
C29_CompletedFinal == [][C29_Step]_vars

\* the first of two siblings was completed and has stayed as it was while
\* later Appends have built and completed the second
C29_Witness ==
  /\ input.rest = <<>>
  /\ input.names = <<<<"p">>, <<"p", "q">>>>
  /\ Len(parser.heap) = 2
  /\ ~parser.heap[1].Partial
  /\ parser.heap[1].Name = <<"p">>
  /\ parser.heap[1].Content = <<"c">>
  /\ ~parser.heap[2].Partial
  /\ parser.heap[2].Name = <<"p", "q">>
  /\ Cardinality(TreeIndices(parser, 1)) = 1

\* the scripted tag is a self-closing tag of an allowed element with
\* well-formed attributes, and its '>' has been appended
SelfClosingCompleted ==
  /\ ~input.closing
  /\ input.selfClosing
  /\ TagAllowed
  /\ AllWellFormed
  /\ Len(tokenizer.buffer) >= TagEnd

\* the element nodes of the tree
ElementNodes ==
  {j \in 1..Len(parser.astNodes) : parser.astNodes[j].Type = "Xml"}

\* the text nodes of the tree after its last element node
TextAfterElements ==
  {j \in 1..Len(parser.astNodes) :
     /\ parser.astNodes[j].Type = "Text"
     /\ \A e \in ElementNodes : e < j}

OpenedElements ==
  {j \in ElementNodes :
     \/ ~parser.heap[parser.astNodes[j].XmlNode].Partial
     \/ \E k \in 1..Len(parser.xmlStack) :
          parser.xmlStack[k] = parser.astNodes[j].XmlNode}

\* the name written in the tag at offset s of the buffer
WrittenName(buffer, s) ==
  LET from == SkipSpace(buffer, s + 1)
  IN Slice(buffer, from, ScanTo(buffer, from, {" ", "\t", "\n", "\r", "/", ">"}))

\* offset s of the buffer holds the '<' of an opening or self-closing tag of
\* an allowed element
OpensElementAt(buffer, s) ==
  /\ s + 1 < Len(buffer)
  /\ buffer[s + 1] = "<"
  /\ buffer[s + 2] # "/"
  /\ Allowed(tokenizer, WrittenName(buffer, s))

(***************************************************************************)
(* C31: the tree lists its nodes with non-decreasing Position, and every   *)
(* element a tag has opened has Position and StartPos at the offset of the *)
(* '<' of an opening or self-closing tag of an allowed element - never at  *)
(* a fragment that ended up as text or as a stray closing tag.             *)
(***************************************************************************)
C31_PositionsInArrivalOrder ==
  /\ \A i, j \in 1..Len(parser.astNodes) :
       i <= j => parser.astNodes[i].Position <= parser.astNodes[j].Position
  /\ \A j \in OpenedElements :
       /\ parser.astNodes[j].Position = parser.heap[parser.astNodes[j].XmlNode].StartPos
       /\ OpensElementAt(tokenizer.buffer, parser.astNodes[j].Position)

(***************************************************************************)
(* C32: for a tag with a quoted attribute value that holds a '>', the      *)
(* Append that brings the '>' after the closing quote yields one           *)
(* AttributeValue token that spans the whole text between the quotes, and  *)
(* the CloseBracket token of the tag is that last '>'.                     *)
(***************************************************************************)
C32_QuotedValueHoldsBracket ==
  TagCompleted =>
    /\ ValuesOfType("AttributeValue") = <<input.attrs[1].v>>
    /\ \E i \in 1..Len(TagTokens) :
         TagTokens[i] = Token("CloseBracket", TagEnd - 1, TagEnd, TRUE)

\* what the tree shows of entry j apart from the fields of its element
TreeEntry(p, j) ==
  [Type |-> p.astNodes[j].Type, Text |-> p.astNodes[j].Text,
   Position |-> p.astNodes[j].Position]

\* C33 for one Append: every entry of the tree stays where it was with its
\* kind, Text and Position, and the text read before starts the text read after
C33_Step ==
  /\ Len(parser.astNodes) <= Len(parser'.astNodes)
  /\ \A j \in 1..Len(parser.astNodes) :
       /\ TreeEntry(parser', j) = TreeEntry(parser, j)
       /\ parser.astNodes[j].Type = "Xml" =>
            parser'.astNodes[j].XmlNode = parser.astNodes[j].XmlNode
  /\ IsPrefix(GetText(parser), GetText(parser'))

(***************************************************************************)
(* C33: across every Append the tree before the call is a prefix of the    *)
(* tree after it in node kind, Text and Position, so the tree never        *)
(* shrinks or reorders, and GetText() before the call is a prefix of       *)
(* GetText() after it.                                                     *)
(***************************************************************************)
C33_AppendOnly == [][C33_Step]_vars

\* an Append has added a text node and a partial element behind the text
\* nodes the tree already held
C33_Witness ==
  /\ tokenizer.buffer = <<"a", "/", ">", "a", "<">>
  /\ chunk = <<"a", "<">>
  /\ Len(parser.astNodes) >= 3
  /\ parser.astNodes[Len(parser.astNodes)].Type = "Xml"
  /\ parser.astNodes[Len(parser.astNodes) - 1].Text = <<"a">>
  /\ GetText(parser) = <<"a", "/", ">", "a">>

\* the tokens NextToken has returned to the Append in progress
Pulled == local[1].toks

\* C34 for one step: the scan cursor does not move backwards
C34_Step == tokenizer'.position >= tokenizer.position

\* C34 in every state: the cursor is within the buffer, the tokens pulled by
\* one Append are bounded by the length of the buffer, and no Text or
\* Incomplete token has been returned twice
C34_Bounded ==
  /\ tokenizer.position <= Len(tokenizer.buffer)
  /\ Len(Pulled) <= 2 * Len(tokenizer.buffer) + 1
  /\ \A i, j \in 1..Len(Pulled) :
       (i < j /\ Pulled[i].Type \in {"Text", "Incomplete"}) => Pulled[i] # Pulled[j]
  /\ Cardinality({i \in 1..Len(Pulled) : Pulled[i].Type = "Incomplete"}) <= 1

(***************************************************************************)
(* C34: every Append that has started reaches the nil result of NextToken  *)
(* and returns; while it runs the tokens pulled are bounded by the buffer  *)
(* length, no end-of-buffer Text token and no Incomplete token is returned *)
(* twice, and the scan cursor never moves backwards nor past the end of    *)
(* the buffer.                                                             *)
(***************************************************************************)
C34_AppendTerminates ==
  /\ (pc[1] = "Append") ~> (pc[1] = "idle")
  /\ [][C34_Step]_vars
  /\ []C34_Bounded

\* the pull loop of an Append of the empty chunk, made while a tag is
\* unterminated, has pulled the Incomplete token and goes on to nil
C34_Witness ==
  /\ pc[1] = "Append"
  /\ local[1].data = <<>>
  /\ tokenizer.buffer = <<"a", "<", "a">>
  /\ Pulled = <<Token("Incomplete", 1, 3, FALSE)>>
  /\ NextToken(tokenizer).tok = NoToken

\* each attribute as a space, its name, '=' and its value in double quotes
RECURSIVE CanonicalAttributes(_)
CanonicalAttributes(attrs) ==
  IF attrs = <<>> THEN <<>>
  ELSE <<" ">> \o attrs[1].k \o <<"=", "\"">> \o attrs[1].v \o <<"\"">>
       \o CanonicalAttributes(Tail(attrs))

\* the scripted tag as the specification re-serializes it
CanonicalTag ==
  <<"<">> \o (IF input.closing THEN <<"/">> ELSE <<>>) \o input.name
  \o CanonicalAttributes(input.attrs)
  \o (IF input.selfClosing THEN <<"/">> ELSE <<>>) \o <<">">>

(***************************************************************************)
(* C35: when a tag is completed inside the open top-level element, the     *)
(* element's Content ends with the tag re-serialized as '<', '/' for a     *)
(* closing tag, the name, for each attribute a space, the name, '=' and    *)
(* the value in double quotes, '/' for a self-closing tag, and '>',        *)
(* whatever quoting and white space the tag was written with; fed whole,   *)
(* the Content is the re-serialized inner tags and nothing else.           *)
(***************************************************************************)
C35_NestedTagReserialized ==
  TagCompleted =>
    /\ Len(parser.heap) = 1
    /\ HasSuffix(parser.heap[1].Content, CanonicalTag)
    /\ chunk = input.doc =>
         parser.heap[1].Content
           = Slice(input.before, 3, Len(input.before)) \o CanonicalTag

\* C36 for one token
SpanInBuffer(token) ==
  /\ 0 <= token.Start
  /\ token.Start <= token.End
  /\ token.End <= Len(tokenizer.buffer)
  /\ token.Complete <=> token.Type # "Incomplete"

C37_StackShape ==
  /\ parser.depth >= 0
  /\ Len(parser.xmlStack) <= 1
  /\ parser.xmlStack # <<>> <=> parser.depth >= 1
  /\ \A k \in 1..Len(parser.xmlStack) :
       /\ parser.xmlStack[k] = parser.currentPartialNode
       /\ parser.heap[parser.xmlStack[k]].Partial
       /\ TreeIndices(parser, parser.xmlStack[k]) # {}
       /\ parser.partialNodeIndex + 1 \in TreeIndices(parser, parser.xmlStack[k])

\* inside a nested element of the open top-level element, with a nested tag
\* cut by the last Append: depth 2, and p alone on the stack
C37_Witness ==
  /\ parser.depth = 2
  /\ tokenizer.inTag
  /\ Len(parser.xmlStack) = 1
  /\ parser.heap[parser.xmlStack[1]].Name = <<"p">>
  /\ parser.heap[parser.xmlStack[1]].Partial
  /\ parser.currentPartialNode = parser.xmlStack[1]

\* what a caller reads of the elements, in tree order
ElementData(p) == [i \in 1..Len(GetXmlNodes(p)) |-> NodeData(GetXmlNodes(p)[i])]

\* C38 for one Append: the Append of the empty chunk changes nothing a
\* caller reads
C38_Step ==
  empties' = empties + 1 =>
    /\ err' = "nil"
    /\ GetText(parser') = GetText(parser)
    /\ ElementData(parser') = ElementData(parser)

(***************************************************************************)
(* C38: in every reachable state, also while a tag inside an open element  *)
(* is unterminated, Append of the empty chunk returns nil and leaves       *)
(* GetText(), the number of elements and every element's Name, Attributes, *)
(* Content and Partial flag unchanged.                                     *)
(***************************************************************************)
C38_EmptyAppendNoOp == [][C38_Step]_vars

\* the offset just past the first '>' of the buffer, or 0 without one
FirstTagEnd ==
  IF ScanTo(tokenizer.buffer, 0, {">"}) = Len(tokenizer.buffer) THEN 0
  ELSE ScanTo(tokenizer.buffer, 0, {">"}) + 1

\* the name of the first tag, taken for a closing tag
StrayName == Slice(tokenizer.buffer, 2, FirstTagEnd - 1)

\* the buffer begins with a completed closing tag of an allowed element
BeginsWithStrayClosingTag ==
  /\ FirstTagEnd >= 3
  /\ tokenizer.buffer[1] = "<"
  /\ tokenizer.buffer[2] = "/"
  /\ \A i \in 1..Len(StrayName) : StrayName[i] = "a"
  /\ Allowed(tokenizer, StrayName)
  /\ ~everFailed

\* what follows the stray closing tag in the buffer
AfterStray == Slice(tokenizer.buffer, FirstTagEnd, Len(tokenizer.buffer))

(***************************************************************************)
(* C39: a closing tag of an allowed element completed while no element is  *)
(* open, however it was chunked, adds no node and no text and leaves the   *)
(* depth at 0; a top-level element opened after it gets a node of its own  *)
(* at its own position.                                                    *)
(***************************************************************************)
C39_StrayClosingTag ==
  BeginsWithStrayClosingTag =>
    /\ AfterStray = <<>> =>
         /\ parser.astNodes = <<>>
         /\ GetText(parser) = <<>>
         /\ parser.depth = 0
    /\ AfterStray \in {<<"<", ">">>, <<"<", "a", ">">>} =>
         /\ Len(parser.astNodes) = 1
         /\ parser.astNodes[1].Type = "Xml"
         /\ parser.astNodes[1].Position = FirstTagEnd
         /\ parser.heap[parser.astNodes[1].XmlNode].StartPos = FirstTagEnd
         /\ parser.depth = 1

\* the tokens an Append pulled follow one another in the buffer
TokensInOrder(tokens) ==
  \A k \in 1..(Len(tokens) - 1) : tokens[k + 1].Start >= tokens[k].End

\* the document has been fed and the tokenizer has read all of it
AllRead ==
  /\ input.rest = <<>>
  /\ tokenizer.position = Len(tokenizer.buffer)
  /\ ~tokenizer.inTag

\* an Append that follows one that returned ErrMaxDepthExceeded
C40_Step ==
  err = "ErrMaxDepthExceeded" =>
    /\ tokenizer'.buffer = tokenizer.buffer \o chunk'
    /\ tokenizer.position < Len(tokenizer'.buffer) =>
         /\ tokenlog' # <<>>
         /\ tokenlog'[1].Start = tokenizer.position
    /\ TokensInOrder(tokenlog')
    /\ tokenizer'.position >= tokenizer.position

\* after a depth error, once the document is read, its element is complete
C40_Completed ==
  (everFailed /\ AllRead) =>
    /\ parser.depth = 0
    /\ Len(GetXmlNodes(parser)) = 1
    /\ GetXmlNodes(parser)[1].Name = <<"a">>
    /\ GetXmlNodes(parser)[1].Partial = FALSE
    /\ GetText(parser) = input.after

(***************************************************************************)
(* C40: after an Append has returned ErrMaxDepthExceeded the input that    *)
(* followed the failing tag is still in the buffer and the next Append,    *)
(* even of an empty chunk, processes it first and in order; and once the   *)
(* closing tags have been processed the open top-level element is          *)
(* completed with Partial == false.                                        *)
(***************************************************************************)
C40_UsableAfterDepthError == [][C40_Step]_vars /\ []C40_Completed

\* an Append of "" after the error has read the closing tags the failing
\* Append left unread, and the element is complete
C40_Witness ==
  /\ everFailed
  /\ AllRead
  /\ chunk = <<>>
  /\ err = "nil"
  /\ \E k \in 1..Len(calllog) : calllog[k].kind = "closing" /\ calllog[k].depth = 0
  /\ GetXmlNodes(parser)[1].Partial = FALSE

=============================================================================
